---- MODULE Spec2Model ----
(***************************************************************************)
(* A model of the ICO decoder of go-ico (src/ico.go, package ico).         *)
(*                                                                         *)
(* The input is a sequence of bytes.  Decode is followed step by step:     *)
(* the header, one directory entry per step, one image per step, then the  *)
(* return.  A Go run-time panic (an index or a slice expression out of     *)
(* range) is an outcome of its own, different from a returned error.       *)
(* Go's int is taken to be 64 bits wide; uint32 values are kept as two     *)
(* 16-bit halves so that the 32-bit wrap-around of an addition is exact.   *)
(***************************************************************************)
EXTENDS Integers, Sequences, FiniteSets, TLC

VARIABLES data, pc, header, entries, images, ico, err, panic, sliced, route, best, call

vars == <<data, pc, header, entries, images, ico, err, panic, sliced, route, best, call>>

\* Go's nil, for the variables and fields that hold a record when set.
NULL == [nil |-> TRUE]

(***************************************************************************)
(* Go arithmetic and byte access                                           *)
(***************************************************************************)

\* Go's integer division truncates toward zero (b > 0 here).
GoDiv(a, b) == IF a >= 0 THEN a \div b ELSE -((-a) \div b)

\* Go's % has the sign of the dividend.
GoMod(a, b) == a - b * GoDiv(a, b)

\* d[k] of Go, 0-based; the caller has established 0 <= k < len(d).
At(d, k) == d[k + 1]

\* Whether the Go index expression d[k] is in range.
InRange(d, k) == k >= 0 /\ k < Len(d)

\* binary.LittleEndian.Uint16 at byte offset k.
LE16(d, k) == At(d, k) + 256 * At(d, k + 1)

\* A uint32 read little-endian at byte offset k, as its two 16-bit halves.
LE32(d, k) == [lo |-> LE16(d, k), hi |-> LE16(d, k + 2)]

\* uint32(n) for a small non-negative int n (a length).
U32Of(n) == [lo |-> n % 65536, hi |-> (n \div 65536) % 65536]

\* a + b on uint32: the sum modulo 2^32.
U32Add(a, b) ==
    LET l == a.lo + b.lo
        h == a.hi + b.hi + (l \div 65536)
    IN  [lo |-> l % 65536, hi |-> h % 65536]

\* a >= b and a > b on uint32.
\* Mutation of U32Ge: > for >=.
U32GeStrict(a, b) == a.hi > b.hi \/ (a.hi = b.hi /\ a.lo > b.lo)

U32Ge(a, b) == a.hi > b.hi \/ (a.hi = b.hi /\ a.lo >= b.lo)
U32Gt(a, b) == a.hi > b.hi \/ (a.hi = b.hi /\ a.lo > b.lo)

\* int(u) for a uint32 (64-bit int: no change of value).
U32Int(u) == u.hi * 65536 + u.lo

\* An int32 read little-endian at byte offset k (two's complement).
LEI32(d, k) ==
    LET u == LE32(d, k)
    IN  IF u.hi >= 32768 THEN (u.hi - 65536) * 65536 + u.lo
        ELSE u.hi * 65536 + u.lo

\* The Go slice expression d[lo:hi], the caller having 0 <= lo <= hi <= len(d).
Slice(d, lo, hi) == [k \in 1..(hi - lo) |-> d[lo + k]]

\* Whether the Go slice expression d[lo:hi] is in range (else it panics).
SliceOK(d, lo, hi) == 0 <= lo /\ lo <= hi /\ hi <= Len(d)


(***************************************************************************)
(* Header and directory entries                                            *)
(***************************************************************************)

\* binary.Read of the 6-byte Header at the start of the input.
ReadHeader(d) == [Reserved |-> LE16(d, 0), Type |-> LE16(d, 2), Count |-> LE16(d, 4)]

\* binary.Read of the 16-byte DirectoryEntry number i (0-based); the reader
\* stands right after the header and the entries read before.
ReadEntry(d, i) ==
    LET b == 6 + 16 * i
    IN  [Width        |-> At(d, b),
         Height       |-> At(d, b + 1),
         ColorCount   |-> At(d, b + 2),
         Reserved     |-> At(d, b + 3),
         ColorPlanes  |-> LE16(d, b + 4),
         BitsPerPixel |-> LE16(d, b + 6),
         Size         |-> LE32(d, b + 8),
         Offset       |-> LE32(d, b + 12)]

\* Whether binary.Read finds the 16 bytes of entry i in the input.
EntryReadable(d, i) == 6 + 16 * i + 16 <= Len(d)

\* Mutation of GetWidth: the stored byte as it is.
GetWidthRaw(e) == e.Width

GetWidth(e) == IF e.Width = 0 THEN 256 ELSE e.Width

GetHeight(e) == IF e.Height = 0 THEN 256 ELSE e.Height

\* Mutation of HeaderError: the count check is forgotten.
HeaderErrorNoCount(h) ==
    IF h.Reserved # 0 THEN "invalid ICO file: reserved field must be 0"
    ELSE IF h.Type # 1 THEN "unsupported file type"
    ELSE ""

\* The header checks of Decode, in their order; "" when the header passes.
HeaderError(h) ==
    IF h.Reserved # 0 THEN "invalid ICO file: reserved field must be 0"
    ELSE IF h.Type # 1 THEN "unsupported file type"
    ELSE IF h.Count = 0 THEN "ICO file contains no images"
    ELSE ""

(***************************************************************************)
(* Images: image.RGBA holds alpha-premultiplied 8-bit channels             *)
(***************************************************************************)

\* Mutation of NRGBA: red and blue exchanged.
NRGBASwapped(r, g, b, a) == [R |-> b, G |-> g, B |-> r, A |-> a]

NRGBA(r, g, b, a) == [R |-> r, G |-> g, B |-> b, A |-> a]

\* Mutation of Premul: the channel is stored as it is, as image.NRGBA would.
PremulNone(v, a) == v

\* color.NRGBA.RGBA() followed by color.RGBAModel's uint8(v >> 8).
Premul(v, a) == (((v * 257) * a) \div 255) \div 256

\* color.RGBAModel.Convert of an NRGBA colour: what image.RGBA.Set stores.
RGBAModel(c) ==
    [R |-> Premul(c.R, c.A), G |-> Premul(c.G, c.A), B |-> Premul(c.B, c.A),
     A |-> (c.A * 257) \div 256]

\* image.NewRGBA(image.Rect(0, 0, width, height)): Rect orders its corners,
\* and every pixel starts as (0,0,0,0).
NewRGBA(width, height) ==
    LET x0 == IF width < 0 THEN width ELSE 0
        x1 == IF width < 0 THEN 0 ELSE width
        y0 == IF height < 0 THEN height ELSE 0
        y1 == IF height < 0 THEN 0 ELSE height
    IN  [kind |-> "rgba", minX |-> x0, maxX |-> x1, minY |-> y0, maxY |-> y1,
         pix  |-> [p \in (x0..(x1 - 1)) \X (y0..(y1 - 1)) |->
                      [R |-> 0, G |-> 0, B |-> 0, A |-> 0]]]

\* img.Set(x, y, c): nothing outside the rectangle, else the converted colour.
\* Mutation of Set: the colour is stored as given, without conversion.
SetStraight(img, x, y, c) ==
    IF <<x, y>> \in DOMAIN img.pix
    THEN [img EXCEPT !.pix[<<x, y>>] = [R |-> c.R, G |-> c.G, B |-> c.B, A |-> c.A]]
    ELSE img

Set(img, x, y, c) ==
    IF <<x, y>> \in DOMAIN img.pix
    THEN [img EXCEPT !.pix[<<x, y>>] = RGBAModel(c)]
    ELSE img

\* img.RGBAAt(x, y): the stored pixel, or the zero colour outside.
RGBAAt(img, x, y) ==
    IF <<x, y>> \in DOMAIN img.pix THEN img.pix[<<x, y>>]
    ELSE [R |-> 0, G |-> 0, B |-> 0, A |-> 0]

\* The outcomes of a decoder: an image, a returned error, or a run-time panic.
Ok(img, via) == [st |-> "ok", img |-> img, err |-> "", via |-> via]

Error(msg, via) == [st |-> "error", img |-> NULL, err |-> msg, via |-> via]

Panic(msg, via) == [st |-> "panic", img |-> NULL, err |-> msg, via |-> via]

\* Mutation of PadRow: rows are not padded.
PadRowNone(rowSize) == rowSize

\* rowSize + (4 - (rowSize % 4)) % 4
PadRow(rowSize) == rowSize + GoMod(4 - GoMod(rowSize, 4), 4)

\* Mutation of Bit: the bits are counted from the most significant one.
BitReversed(b, k) == (b \div (2 ^ (7 - k))) % 2

\* (b >> k) & 1
Bit(b, k) == (b \div (2 ^ k)) % 2

(***************************************************************************)
(* The AND mask, the same code in all five depth decoders                  *)
(***************************************************************************)

\* Mutation of srcY: the rows are taken top row first.
srcYTopDown(height, y) == y

\* srcY := height - 1 - y: the stored row of image row y, the bottom row first.
srcY(height, y) == height - 1 - y

\* andTotalRowSize
AndStride(width) == PadRow(GoDiv(width + 7, 8))

\* Mutation of AndMaskFits: the mask is applied wherever a byte of it exists.
AndMaskFitsAlways(d, width, height, andMaskOffset) == TRUE

\* "Apply AND mask if there's enough data"
AndMaskFits(d, width, height, andMaskOffset) ==
    andMaskOffset + height * AndStride(width) <= Len(d)

RECURSIVE andLoop(_, _, _, _, _, _, _, _)
andLoop(d, width, height, andMaskOffset, y, x, img, via) ==
    LET rowOffset  == andMaskOffset + srcY(height, y) * AndStride(width)
        byteOffset == rowOffset + GoDiv(x, 8)
        bitIndex   == 7 - GoMod(x, 8)
        cur        == RGBAAt(img, x, y)
    IN  IF ~(y < height) THEN Ok(img, via)
        ELSE IF ~(x < width)
             THEN andLoop(d, width, height, andMaskOffset, y + 1, 0, img, via)
        ELSE IF ~(byteOffset < Len(d))
             THEN andLoop(d, width, height, andMaskOffset, y, x + 1, img, via)
        ELSE IF ~InRange(d, byteOffset) THEN Panic("index out of range", via)
        ELSE IF Bit(At(d, byteOffset), bitIndex) = 1
             THEN andLoop(d, width, height, andMaskOffset, y, x + 1,
                          Set(img, x, y, NRGBA(cur.R, cur.G, cur.B, 0)), via)
        ELSE andLoop(d, width, height, andMaskOffset, y, x + 1, img, via)

\* The tail of every depth decoder: the mask, when it fits, then the return.
applyAndMask(d, width, height, andMaskOffset, img, via) ==
    IF AndMaskFits(d, width, height, andMaskOffset)
    THEN andLoop(d, width, height, andMaskOffset, 0, 0, img, via)
    ELSE Ok(img, via)

(***************************************************************************)
(* The five depth decoders                                                 *)
(***************************************************************************)

\* The XOR loop of decodeBMP32 over d = data[headerSize:].
RECURSIVE xorLoop32(_, _, _, _, _, _)
xorLoop32(d, width, height, y, x, img) ==
    LET xorRowSize  == width * 4
        rowOffset   == srcY(height, y) * PadRow(xorRowSize)
        pixelOffset == rowOffset + x * 4
    IN  IF ~(y < height) THEN Ok(img, "decodeBMP32")
        ELSE IF x = 0 /\ rowOffset + xorRowSize > Len(d)
             THEN Error("BMP data truncated", "decodeBMP32")
        ELSE IF ~(x < width) THEN xorLoop32(d, width, height, y + 1, 0, img)
        ELSE IF pixelOffset + 3 >= Len(d)
             THEN Error("BMP data truncated", "decodeBMP32")
        ELSE IF ~InRange(d, pixelOffset) \/ ~InRange(d, pixelOffset + 3)
             THEN Panic("index out of range", "decodeBMP32")
        ELSE xorLoop32(d, width, height, y, x + 1,
                       Set(img, x, y, NRGBA(At(d, pixelOffset + 2), At(d, pixelOffset + 1),
                                            At(d, pixelOffset), At(d, pixelOffset + 3))))

decodeBMP32(d, width, height) ==
    LET xor == xorLoop32(d, width, height, 0, 0, NewRGBA(width, height))
    IN  IF xor.st # "ok" THEN xor
        ELSE applyAndMask(d, width, height, height * PadRow(width * 4), xor.img,
                          "decodeBMP32")

\* The XOR loop of decodeBMP24 over d = data[headerSize:].
RECURSIVE xorLoop24(_, _, _, _, _, _)
xorLoop24(d, width, height, y, x, img) ==
    LET xorRowSize  == width * 3
        rowOffset   == srcY(height, y) * PadRow(xorRowSize)
        pixelOffset == rowOffset + x * 3
    IN  IF ~(y < height) THEN Ok(img, "decodeBMP24")
        ELSE IF x = 0 /\ rowOffset + xorRowSize > Len(d)
             THEN Error("BMP data truncated", "decodeBMP24")
        ELSE IF ~(x < width) THEN xorLoop24(d, width, height, y + 1, 0, img)
        ELSE IF pixelOffset + 2 >= Len(d)
             THEN Error("BMP data truncated", "decodeBMP24")
        ELSE IF ~InRange(d, pixelOffset) \/ ~InRange(d, pixelOffset + 2)
             THEN Panic("index out of range", "decodeBMP24")
        ELSE xorLoop24(d, width, height, y, x + 1,
                       Set(img, x, y, NRGBA(At(d, pixelOffset + 2), At(d, pixelOffset + 1),
                                            At(d, pixelOffset), 255)))

decodeBMP24(d, width, height) ==
    LET xor == xorLoop24(d, width, height, 0, 0, NewRGBA(width, height))
    IN  IF xor.st # "ok" THEN xor
        ELSE applyAndMask(d, width, height, height * PadRow(width * 3), xor.img,
                          "decodeBMP24")

\* The palette loop: n entries of 4 bytes (B, G, R, reserved) from paletteOffset.
\* Mutation of ReadPalette: the entry's bytes are taken as R, G, B.
ReadPaletteRGB(d, paletteOffset, n) ==
    [i \in 0..(n - 1) |->
        NRGBA(At(d, paletteOffset + i * 4), At(d, paletteOffset + i * 4 + 1),
              At(d, paletteOffset + i * 4 + 2), 255)]

ReadPalette(d, paletteOffset, n) ==
    [i \in 0..(n - 1) |->
        NRGBA(At(d, paletteOffset + i * 4 + 2), At(d, paletteOffset + i * 4 + 1),
              At(d, paletteOffset + i * 4), 255)]

\* Whether every index the palette loop reads is in range (else it panics).
PaletteInRange(d, paletteOffset, n) ==
    InRange(d, paletteOffset) /\ InRange(d, paletteOffset + (n - 1) * 4 + 2)

\* The XOR loop of decodeBMP8 over the whole payload.
RECURSIVE xorLoop8(_, _, _, _, _, _, _, _)
xorLoop8(d, width, height, pixelDataOffset, palette, y, x, img) ==
    LET rowOffset == pixelDataOffset + srcY(height, y) * PadRow(width)
    IN  IF ~(y < height) THEN Ok(img, "decodeBMP8")
        ELSE IF ~(x < width)
             THEN xorLoop8(d, width, height, pixelDataOffset, palette, y + 1, 0, img)
        ELSE IF rowOffset + x >= Len(d)
             THEN Error("BMP data truncated", "decodeBMP8")
        ELSE IF ~InRange(d, rowOffset + x)
             THEN Panic("index out of range", "decodeBMP8")
        ELSE xorLoop8(d, width, height, pixelDataOffset, palette, y, x + 1,
                      Set(img, x, y, palette[At(d, rowOffset + x)]))

decodeBMP8(d, width, height, headerSize) ==
    LET paletteOffset   == headerSize
        pixelDataOffset == paletteOffset + 1024
    IN  IF paletteOffset + 1024 > Len(d)
        THEN Error("BMP palette data truncated", "decodeBMP8")
        ELSE IF ~PaletteInRange(d, paletteOffset, 256)
        THEN Panic("index out of range", "decodeBMP8")
        ELSE LET xor == xorLoop8(d, width, height, pixelDataOffset,
                                 ReadPalette(d, paletteOffset, 256), 0, 0,
                                 NewRGBA(width, height))
             IN  IF xor.st # "ok" THEN xor
                 ELSE applyAndMask(d, width, height,
                                   pixelDataOffset + height * PadRow(width), xor.img,
                                   "decodeBMP8")

\* Mutation of xorLoop4: the low nibble is taken for the even pixel.
RECURSIVE xorLoop4LowFirst(_, _, _, _, _, _, _, _)
xorLoop4LowFirst(d, width, height, pixelDataOffset, palette, y, x, img) ==
    LET rowOffset  == pixelDataOffset + srcY(height, y) * PadRow(GoDiv(width + 1, 2))
        byteOffset == rowOffset + GoDiv(x, 2)
    IN  IF ~(y < height) THEN Ok(img, "decodeBMP4")
        ELSE IF ~(x < width)
             THEN xorLoop4LowFirst(d, width, height, pixelDataOffset, palette, y + 1, 0, img)
        ELSE IF byteOffset >= Len(d)
             THEN Error("BMP data truncated", "decodeBMP4")
        ELSE IF ~InRange(d, byteOffset)
             THEN Panic("index out of range", "decodeBMP4")
        ELSE LET pixelByte == At(d, byteOffset)
                 img1 == Set(img, x, y, palette[pixelByte % 16])
                 img2 == IF x + 1 < width
                         THEN Set(img1, x + 1, y, palette[(pixelByte \div 16) % 16])
                         ELSE img1
             IN  xorLoop4LowFirst(d, width, height, pixelDataOffset, palette, y, x + 2, img2)

\* The XOR loop of decodeBMP4: x advances by 2, one byte holds two pixels.
RECURSIVE xorLoop4(_, _, _, _, _, _, _, _)
xorLoop4(d, width, height, pixelDataOffset, palette, y, x, img) ==
    LET rowOffset  == pixelDataOffset + srcY(height, y) * PadRow(GoDiv(width + 1, 2))
        byteOffset == rowOffset + GoDiv(x, 2)
    IN  IF ~(y < height) THEN Ok(img, "decodeBMP4")
        ELSE IF ~(x < width)
             THEN xorLoop4(d, width, height, pixelDataOffset, palette, y + 1, 0, img)
        ELSE IF byteOffset >= Len(d)
             THEN Error("BMP data truncated", "decodeBMP4")
        ELSE IF ~InRange(d, byteOffset)
             THEN Panic("index out of range", "decodeBMP4")
        ELSE LET pixelByte == At(d, byteOffset)
                 img1 == Set(img, x, y, palette[(pixelByte \div 16) % 16])
                 img2 == IF x + 1 < width
                         THEN Set(img1, x + 1, y, palette[pixelByte % 16])
                         ELSE img1
             IN  xorLoop4(d, width, height, pixelDataOffset, palette, y, x + 2, img2)

decodeBMP4(d, width, height, headerSize) ==
    LET paletteOffset   == headerSize
        pixelDataOffset == paletteOffset + 64
    IN  IF paletteOffset + 64 > Len(d)
        THEN Error("BMP palette data truncated", "decodeBMP4")
        ELSE IF ~PaletteInRange(d, paletteOffset, 16)
        THEN Panic("index out of range", "decodeBMP4")
        ELSE LET xor == xorLoop4(d, width, height, pixelDataOffset,
                                 ReadPalette(d, paletteOffset, 16), 0, 0,
                                 NewRGBA(width, height))
             IN  IF xor.st # "ok" THEN xor
                 ELSE applyAndMask(d, width, height,
                                   pixelDataOffset + height * PadRow(GoDiv(width + 1, 2)),
                                   xor.img, "decodeBMP4")

\* Mutation of xorLoop1: the least significant bit is taken first.
RECURSIVE xorLoop1LSB(_, _, _, _, _, _, _, _)
xorLoop1LSB(d, width, height, pixelDataOffset, palette, y, x, img) ==
    LET rowOffset  == pixelDataOffset + srcY(height, y) * PadRow(GoDiv(width + 7, 8))
        byteOffset == rowOffset + GoDiv(x, 8)
    IN  IF ~(y < height) THEN Ok(img, "decodeBMP1")
        ELSE IF ~(x < width)
             THEN xorLoop1LSB(d, width, height, pixelDataOffset, palette, y + 1, 0, img)
        ELSE IF byteOffset >= Len(d)
             THEN Error("BMP data truncated", "decodeBMP1")
        ELSE IF ~InRange(d, byteOffset)
             THEN Panic("index out of range", "decodeBMP1")
        ELSE xorLoop1LSB(d, width, height, pixelDataOffset, palette, y, x + 1,
                         Set(img, x, y, palette[Bit(At(d, byteOffset), GoMod(x, 8))]))

\* The XOR loop of decodeBMP1: one byte holds eight pixels, most significant first.
RECURSIVE xorLoop1(_, _, _, _, _, _, _, _)
xorLoop1(d, width, height, pixelDataOffset, palette, y, x, img) ==
    LET rowOffset  == pixelDataOffset + srcY(height, y) * PadRow(GoDiv(width + 7, 8))
        byteOffset == rowOffset + GoDiv(x, 8)
    IN  IF ~(y < height) THEN Ok(img, "decodeBMP1")
        ELSE IF ~(x < width)
             THEN xorLoop1(d, width, height, pixelDataOffset, palette, y + 1, 0, img)
        ELSE IF byteOffset >= Len(d)
             THEN Error("BMP data truncated", "decodeBMP1")
        ELSE IF ~InRange(d, byteOffset)
             THEN Panic("index out of range", "decodeBMP1")
        ELSE xorLoop1(d, width, height, pixelDataOffset, palette, y, x + 1,
                      Set(img, x, y, palette[Bit(At(d, byteOffset), 7 - GoMod(x, 8))]))

decodeBMP1(d, width, height, headerSize) ==
    LET paletteOffset   == headerSize
        pixelDataOffset == paletteOffset + 8
    IN  IF paletteOffset + 8 > Len(d)
        THEN Error("BMP palette data truncated", "decodeBMP1")
        ELSE IF ~PaletteInRange(d, paletteOffset, 2)
        THEN Panic("index out of range", "decodeBMP1")
        ELSE LET xor == xorLoop1(d, width, height, pixelDataOffset,
                                 ReadPalette(d, paletteOffset, 2), 0, 0,
                                 NewRGBA(width, height))
             IN  IF xor.st # "ok" THEN xor
                 ELSE applyAndMask(d, width, height,
                                   pixelDataOffset + height * PadRow(GoDiv(width + 7, 8)),
                                   xor.img, "decodeBMP1")

(***************************************************************************)
(* decodeBMP and decodeImage                                               *)
(***************************************************************************)

\* Mutation of DepthCase: the 4-bit case calls the 8-bit decoder.
DepthCaseSlip(bitsPerPixel) ==
    CASE bitsPerPixel = 32 -> "decodeBMP32"
      [] bitsPerPixel = 24 -> "decodeBMP24"
      [] bitsPerPixel = 8  -> "decodeBMP8"
      [] bitsPerPixel = 4  -> "decodeBMP8"
      [] bitsPerPixel = 1  -> "decodeBMP1"
      [] OTHER             -> "default"

\* The depth switch of decodeBMP: the decoder a bitsPerPixel value selects.
DepthCase(bitsPerPixel) ==
    CASE bitsPerPixel = 32 -> "decodeBMP32"
      [] bitsPerPixel = 24 -> "decodeBMP24"
      [] bitsPerPixel = 8  -> "decodeBMP8"
      [] bitsPerPixel = 4  -> "decodeBMP4"
      [] bitsPerPixel = 1  -> "decodeBMP1"
      [] OTHER             -> "default"

\* The slice expression data[headerSize:] of the 32 and 24 bit cases.
HeaderSliceOK(d, headerSize) == ~U32Gt(headerSize, U32Of(Len(d)))

\* Mutation of decodeBMP: the depth is taken from the directory entry.
decodeBMPByEntry(d, entry) ==
    IF Len(d) < 40 THEN Error("BMP data too short", "decodeBMP")
    ELSE LET headerSize   == LE32(d, 0)
             width        == LEI32(d, 4)
             height       == GoDiv(LEI32(d, 8), 2)
             bitsPerPixel == entry.BitsPerPixel
             to           == DepthCase(bitsPerPixel)
         IN  CASE to = "decodeBMP32" ->
                    IF ~HeaderSliceOK(d, headerSize)
                    THEN Panic("slice bounds out of range", "decodeBMP")
                    ELSE decodeBMP32(Slice(d, U32Int(headerSize), Len(d)), width, height)
               [] to = "decodeBMP24" ->
                    IF ~HeaderSliceOK(d, headerSize)
                    THEN Panic("slice bounds out of range", "decodeBMP")
                    ELSE decodeBMP24(Slice(d, U32Int(headerSize), Len(d)), width, height)
               [] to = "decodeBMP8" -> decodeBMP8(d, width, height, U32Int(headerSize))
               [] to = "decodeBMP4" -> decodeBMP4(d, width, height, U32Int(headerSize))
               [] to = "decodeBMP1" -> decodeBMP1(d, width, height, U32Int(headerSize))
               [] OTHER -> Error("unsupported BMP bit depth", "decodeBMP")

decodeBMP(d, entry) ==
    IF Len(d) < 40 THEN Error("BMP data too short", "decodeBMP")
    ELSE LET headerSize   == LE32(d, 0)
             width        == LEI32(d, 4)
             height       == GoDiv(LEI32(d, 8), 2)
             bitsPerPixel == LE16(d, 14)
             to           == DepthCase(bitsPerPixel)
         IN  CASE to = "decodeBMP32" ->
                    IF ~HeaderSliceOK(d, headerSize)
                    THEN Panic("slice bounds out of range", "decodeBMP")
                    ELSE decodeBMP32(Slice(d, U32Int(headerSize), Len(d)), width, height)
               [] to = "decodeBMP24" ->
                    IF ~HeaderSliceOK(d, headerSize)
                    THEN Panic("slice bounds out of range", "decodeBMP")
                    ELSE decodeBMP24(Slice(d, U32Int(headerSize), Len(d)), width, height)
               [] to = "decodeBMP8" -> decodeBMP8(d, width, height, U32Int(headerSize))
               [] to = "decodeBMP4" -> decodeBMP4(d, width, height, U32Int(headerSize))
               [] to = "decodeBMP1" -> decodeBMP1(d, width, height, U32Int(headerSize))
               [] OTHER -> Error("unsupported BMP bit depth", "decodeBMP")

\* The 8-byte PNG signature.
PNGSignature == <<137, 80, 78, 71, 13, 10, 26, 10>>

\* Mutation of IsPNG: only the first four bytes of the signature are compared.
IsPNGPrefix(d) == Len(d) >= 8 /\ SubSeq(d, 1, 4) = SubSeq(PNGSignature, 1, 4)

\* len(data) >= 8 && bytes.Equal(data[:8], signature)
IsPNG(d) == Len(d) >= 8 /\ SubSeq(d, 1, 8) = PNGSignature

\* png.Decode, the external delegate: it returns an image or an error, which
\* one is not decided here (pngOK is the delegate's answer).
pngDecode(d, pngOK) ==
    IF pngOK THEN Ok([kind |-> "png", src |-> d], "png.Decode")
    ELSE Error("png: invalid format", "png.Decode")

decodeImage(d, entry, pngOK) ==
    IF IsPNG(d) THEN pngDecode(d, pngOK) ELSE decodeBMP(d, entry)

(***************************************************************************)
(* Input files, built the way the tests build them (createMinimalICO)      *)
(***************************************************************************)

\* Bounds of the generated inputs.
MaxW == 3
MaxH == 2
MaxCount == 3
MaxCut == 4

Bytes16(n) == <<n % 256, n \div 256>>

Bytes32(u) == Bytes16(u.lo) \o Bytes16(u.hi)

\* A small int32 as the uint32 with the same bits.
I32(n) == IF n >= 0 THEN U32Of(n) ELSE [lo |-> 65536 + n, hi |-> 65535]

Zeros(n) == [k \in 1..n |-> 0]

\* n bytes of varied content.
Fill(n, seed) == [k \in 1..n |-> (seed + 37 * k) % 256]

icoHeader(reserved, type, count) == Bytes16(reserved) \o Bytes16(type) \o Bytes16(count)

dirEntry(w, h, bpp, size, offset) ==
    <<w, h, 0, 0>> \o Bytes16(1) \o Bytes16(bpp) \o Bytes32(size) \o Bytes32(offset)

\* The 40-byte BMP info header; h2 is the stored (doubled) height.
bmpInfoHeader(headerSize, w, h2, bpp) ==
    Bytes32(headerSize) \o Bytes32(I32(w)) \o Bytes32(I32(h2)) \o Bytes16(1)
        \o Bytes16(bpp) \o Zeros(24)

\* The sizes of the BMP format: palette bytes and padded row bytes.
PaletteBytes(bpp) == CASE bpp = 8 -> 1024 [] bpp = 4 -> 64 [] bpp = 1 -> 8 [] OTHER -> 0

RowBytes(bpp, w) == 4 * ((w * bpp + 31) \div 32)

XorBytes(bpp, w, h) == h * RowBytes(bpp, w)

MaskBytes(w, h) == h * RowBytes(1, w)

\* A w x h bitmap with palette, XOR rows and AND rows, its last `cut` bytes missing.
bmpPayload(bpp, w, h, seed, cut) ==
    LET full == bmpInfoHeader(U32Of(40), w, 2 * h, bpp)
                    \o Fill(PaletteBytes(bpp) + XorBytes(bpp, w, h) + MaskBytes(w, h), seed)
    IN  SubSeq(full, 1, Len(full) - cut)

\* A bitmap whose header fields are free: any headerSize, width, stored height and depth.
bmpRaw(bpp, headerSize, w, h2, seed) ==
    bmpInfoHeader(headerSize, w, h2, bpp) \o Fill(PaletteBytes(bpp) + 32, seed)

\* A file of one image whose entry spans the whole payload.
icoFile1(w, h, payload) ==
    icoHeader(0, 1, 1) \o dirEntry(w, h, 32, U32Of(Len(payload)), U32Of(22)) \o payload

Seeds == {0, 200}

Depths == {32, 24, 8, 4, 1}

\* Truncation point number c: the first cuts shorten the AND mask, the later
\* ones remove it and shorten the XOR rows.
cutAt(w, h, c) == IF c <= MaxCut THEN c ELSE MaskBytes(w, h) + (c - MaxCut - 1)

\* One well-formed bitmap per depth, size, content and truncation point.
WellFormedInputs ==
    { icoFile1(w, h, bmpPayload(bpp, w, h, seed, cutAt(w, h, c))) :
        bpp \in Depths, w \in 1..MaxW, h \in 1..MaxH, seed \in Seeds,
        c \in 0..(2 * MaxCut + 1) }

\* Bitmaps with degenerate header fields.
DegenerateInputs ==
    { icoFile1(1, 1, bmpRaw(bpp, hs, w, h2, 0)) :
        bpp \in Depths \cup {16, 0},
        hs \in {U32Of(40), U32Of(0), U32Of(44), U32Of(100), [lo |-> 0, hi |-> 1]},
        w \in {-1, 0, 1, 2}, h2 \in {-2, 0, 1, 2, 3, 4} }

\* Headers good and bad, alone and followed by a valid entry and image.
HeaderInputs ==
    { icoHeader(r, t, c) \o tail :
        r \in {0, 1}, t \in {0, 1, 2}, c \in {0, 1, 2},
        tail \in { <<>>,
                   dirEntry(1, 1, 32, U32Of(48), U32Of(22)) \o bmpPayload(32, 1, 1, 0, 0) } }

\* Inputs cut short inside the header or inside the directory.
ShortInputs ==
    { SubSeq(icoFile1(1, 1, bmpPayload(32, 1, 1, 0, 0)), 1, n) : n \in 0..22 }
        \cup { icoHeader(0, 1, 65535) \o dirEntry(1, 1, 32, U32Of(48), U32Of(22)) }

\* One image of 48 bytes at offset 22 in a file of 70 bytes; the entry's
\* offset and size take values around and far beyond the file's length.
OffsetSizeInputs ==
    { icoHeader(0, 1, 1) \o dirEntry(1, 1, 32, size, offset) \o bmpPayload(32, 1, 1, 0, 0) :
        offset \in {U32Of(22), U32Of(0), U32Of(30), U32Of(69), U32Of(70), U32Of(80),
                    [lo |-> 22, hi |-> 1], [lo |-> 65535, hi |-> 65535]},
        size \in {U32Of(48), U32Of(0), U32Of(40), U32Of(44), U32Of(49), U32Of(70),
                  [lo |-> 65514, hi |-> 65535], [lo |-> 65526, hi |-> 65535],
                  [lo |-> 65535, hi |-> 65535], [lo |-> 0, hi |-> 1]} }

\* Payloads around the PNG signature: the signature alone, with data after it,
\* cut short, or with one byte changed.
PNGInputs ==
    { icoFile1(1, 1, p) :
        p \in { SubSeq(PNGSignature \o Fill(40, 0), 1, n) : n \in 0..48 }
              \cup { [PNGSignature \o Fill(40, 0) EXCEPT ![k] = 0] : k \in 1..8 } }

DimSet == { <<8, 8>>, <<16, 16>>, <<32, 32>>, <<64, 16>>, <<0, 0>> }

\* The payload of image j of a file of several images: a bitmap j pixels wide
\* and one high of its own content, whatever size its directory entry states,
\* or (bad) one of an unsupported depth.
multiPayload(j, bad) ==
    IF j = bad THEN bmpRaw(16, U32Of(40), 1, 2, 0)
    ELSE bmpPayload(IF j % 2 = 1 THEN 32 ELSE 24, j, 1, 50 * j, 0)

RECURSIVE multiPayloads(_, _, _)
multiPayloads(j, count, bad) ==
    IF j > count THEN <<>>
    ELSE <<multiPayload(j, bad)>> \o multiPayloads(j + 1, count, bad)

RECURSIVE concat(_)
concat(ss) == IF ss = <<>> THEN <<>> ELSE Head(ss) \o concat(Tail(ss))

\* Where payload j starts: the payloads lie after the directory, in directory
\* order or (rev) in the opposite order.
payloadOffset(ps, j, rev) ==
    6 + 16 * Len(ps)
      + Len(concat([k \in 1..(IF rev THEN Len(ps) - j ELSE j - 1) |->
                        IF rev THEN ps[Len(ps) + 1 - k] ELSE ps[k]]))

icoFileN(dims, bad, rev) ==
    LET n  == Len(dims)
        ps == multiPayloads(1, n, bad)
    IN  icoHeader(0, 1, n)
          \o concat([j \in 1..n |->
                 dirEntry(dims[j][1], dims[j][2], 32, U32Of(Len(ps[j])),
                          U32Of(payloadOffset(ps, j, rev)))])
          \o concat([k \in 1..n |-> IF rev THEN ps[n + 1 - k] ELSE ps[k]])

\* Files of several images, of every combination of entry sizes.
MultiInputs ==
    UNION { { icoFileN(dims, bad, rev) :
                dims \in [1..n -> DimSet], bad \in 0..n, rev \in BOOLEAN } :
            n \in 2..MaxCount }

\* One image whose entry holds the width byte v and the height byte 255 - v,
\* for every byte value v.
ByteInputs ==
    { icoFile1(v, 255 - v, bmpPayload(32, 1, 1, 0, 0)) : v \in 0..255 }

\* Files of several images that end with the last directory entry.
DirectoryOnlyInputs ==
    UNION { { SubSeq(icoFileN(dims, 0, FALSE), 1, 6 + 16 * n) : dims \in [1..n -> DimSet] } :
            n \in 2..MaxCount }

\* One 32-bit image of one pixel with chosen bytes B, G, R, A, and an AND mask
\* whose bit for the pixel is 0 or 1.
PixelInputs ==
    { icoFile1(1, 1, bmpInfoHeader(U32Of(40), 1, 2, 32) \o c \o <<a>> \o <<m, 0, 0, 0>>) :
        c \in { <<0, 0, 255>>, <<10, 100, 200>>, <<255, 255, 255>>, <<1, 128, 254>> },
        a \in {0, 1, 127, 128, 254, 255}, m \in {0, 128} }

\* The width of the wide bitmaps: more than one byte of mask per row.
WideW == 9

\* Bitmaps of two rows wider than eight pixels, one per depth and content.
WideInputs ==
    { icoFile1(WideW, 2, bmpPayload(bpp, WideW, 2, seed, 0)) : bpp \in Depths, seed \in Seeds }

\* A 2x2 bitmap of direct colour that stores red, green and then blue, white,
\* rows of 24 bits padded with AA AA; m1 and m2 are the first bytes of the
\* first and the second stored mask row.
rowOrderPayload(bpp, m1, m2) ==
    LET a   == IF bpp = 32 THEN <<255>> ELSE <<>>
        pad == IF bpp = 32 THEN <<>> ELSE <<170, 170>>
    IN  bmpInfoHeader(U32Of(40), 2, 4, bpp)
          \o <<0, 0, 255>> \o a \o <<0, 255, 0>> \o a \o pad
          \o <<255, 0, 0>> \o a \o <<255, 255, 255>> \o a \o pad
          \o <<m1, 0, 0, 0>> \o <<m2, 0, 0, 0>>

RowOrderInputs ==
    { icoFile1(2, 2, rowOrderPayload(bpp, m1, m2)) :
        bpp \in {32, 24}, m1 \in {0, 128, 64}, m2 \in {0, 128, 64} }

\* A file of n images whose entry oob (1-based) has its offset or its size
\* field set to 65535, beyond the end of the file.
oobFile(n, bad, oob, field) ==
    LET f == icoFileN([j \in 1..n |-> <<16, 16>>], bad, FALSE)
        b == 6 + 16 * (oob - 1) + (IF field = "size" THEN 8 ELSE 12)
    IN  [f EXCEPT ![b + 1] = 255, ![b + 2] = 255]

\* Files of several images with one entry out of bounds, after and before
\* good images and images of an unsupported depth.
MultiOOBInputs ==
    UNION { { oobFile(n, bad, oob, field) :
                bad \in 0..n, oob \in 1..n, field \in {"size", "offset"} } :
            n \in 2..MaxCount }

Inputs ==
    WellFormedInputs \cup DegenerateInputs \cup HeaderInputs \cup ShortInputs
        \cup OffsetSizeInputs \cup PNGInputs \cup MultiInputs \cup ByteInputs
        \cup DirectoryOnlyInputs \cup PixelInputs \cup WideInputs \cup RowOrderInputs
        \cup MultiOOBInputs

(***************************************************************************)
(* Decode, step by step                                                    *)
(***************************************************************************)

\* return nil, fmt.Errorf(...): the error names the image or entry it is about.
Fail(msg, index) ==
    /\ pc' = "returned"
    /\ err' = [msg |-> msg, index |-> index]
    /\ UNCHANGED <<ico, panic>>

\* A run-time panic: Decode does not return.
Crash(msg, via, index) ==
    /\ pc' = "panicked"
    /\ panic' = [msg |-> msg, via |-> via, index |-> index]
    /\ UNCHANGED <<ico, err>>

\* Mutation of imageData: the slice runs to the end of the input.
imageDataToEnd(d, entry) == Slice(d, U32Int(entry.Offset), Len(d))

\* data[entry.Offset : entry.Offset+entry.Size], the sum computed in uint32.
imageData(d, entry) ==
    Slice(d, U32Int(entry.Offset), U32Int(U32Add(entry.Offset, entry.Size)))

\* Whether that slice expression is in range.
imageDataOK(d, entry) ==
    SliceOK(d, U32Int(entry.Offset), U32Int(U32Add(entry.Offset, entry.Size)))

\* The zero value ICO{}, which a caller may hold without any Decode.
ZeroICO == [Header |-> [Reserved |-> 0, Type |-> 0, Count |-> 0],
            Entries |-> <<>>, Images |-> <<>>]

Init ==
    /\ header = NULL
    /\ entries = <<>>
    /\ images = <<>>
    /\ err = NULL
    /\ panic = NULL
    /\ sliced = <<>>
    /\ route = <<>>
    /\ best = NULL
    /\ call = NULL
    /\ \/ data \in Inputs /\ pc = "header" /\ ico = NULL
       \/ data = <<>> /\ pc = "returned" /\ ico = ZeroICO

\* The length check and the header: lines 66-87.
DecodeHeader ==
    /\ pc = "header"
    /\ IF Len(data) < 6
       THEN Fail("ICO file too short", -1) /\ UNCHANGED header
       ELSE LET h == ReadHeader(data)
            IN  IF HeaderError(h) # ""
                THEN Fail(HeaderError(h), -1) /\ UNCHANGED header
                ELSE /\ header' = h
                     /\ pc' = "decoding"
                     /\ UNCHANGED <<ico, err, panic>>
    /\ UNCHANGED <<data, entries, images, sliced, route, best, call>>

\* Mutation of ReadDirectoryEntry: at the end of the input the loop stops and
\* Decode goes on with the entries it has.
ReadDirectoryEntryBreak ==
    /\ pc = "decoding"
    /\ Len(entries) < header.Count
    /\ IF EntryReadable(data, Len(entries))
       THEN /\ entries' = Append(entries, ReadEntry(data, Len(entries)))
            /\ UNCHANGED header
       ELSE /\ header' = [header EXCEPT !.Count = Len(entries)]
            /\ UNCHANGED entries
    /\ UNCHANGED <<data, pc, ico, err, panic, images, sliced, route, best, call>>

\* One turn of the directory loop: lines 91-95.
ReadDirectoryEntry ==
    /\ pc = "decoding"
    /\ Len(entries) < header.Count
    /\ IF EntryReadable(data, Len(entries))
       THEN /\ entries' = Append(entries, ReadEntry(data, Len(entries)))
            /\ UNCHANGED <<pc, ico, err, panic>>
       ELSE /\ Fail("failed to read directory entry", Len(entries))
            /\ UNCHANGED entries
    /\ UNCHANGED <<data, header, images, sliced, route, best, call>>

\* One turn of the image loop: lines 99-114.
DecodeEntry ==
    /\ pc = "decoding"
    /\ Len(entries) = header.Count
    /\ Len(images) < header.Count
    /\ LET i     == Len(images)
           entry == entries[i + 1]
       IN  IF U32Ge(entry.Offset, U32Of(Len(data)))
           THEN /\ Fail("invalid offset for image", i)
                /\ UNCHANGED <<images, sliced, route>>
           ELSE IF U32Gt(U32Add(entry.Offset, entry.Size), U32Of(Len(data)))
           THEN /\ Fail("image extends beyond file boundary", i)
                /\ UNCHANGED <<images, sliced, route>>
           ELSE /\ sliced' = Append(sliced, i)
                /\ IF ~imageDataOK(data, entry)
                   THEN /\ Crash("slice bounds out of range", "Decode", i)
                        /\ UNCHANGED <<images, route>>
                   ELSE \E pngOK \in BOOLEAN :
                        LET r == decodeImage(imageData(data, entry), entry, pngOK)
                        IN  /\ route' = Append(route, [via |-> r.via, st |-> r.st])
                            /\ CASE r.st = "ok" ->
                                      /\ images' = Append(images, r.img)
                                      /\ UNCHANGED <<pc, ico, err, panic>>
                                 [] r.st = "error" ->
                                      /\ Fail(r.err, i)
                                      /\ UNCHANGED images
                                 [] r.st = "panic" ->
                                      /\ Crash(r.err, r.via, i)
                                      /\ UNCHANGED images
    /\ UNCHANGED <<data, header, entries, best, call>>

\* return &ICO{...}, nil: lines 116-120.
Return ==
    /\ pc = "decoding"
    /\ Len(entries) = header.Count
    /\ Len(images) = header.Count
    /\ pc' = "returned"
    /\ ico' = [Header |-> header, Entries |-> entries, Images |-> images]
    /\ UNCHANGED <<data, header, entries, images, err, panic, sliced, route, best, call>>

(***************************************************************************)
(* The queries on a decoded ICO                                            *)
(***************************************************************************)

\* The loop of GetBestImage over entries i..: the index it ends with.
RECURSIVE bestLoop(_, _, _, _)
bestLoop(es, i, bestIndex, bestSize) ==
    IF i >= Len(es) THEN bestIndex
    ELSE LET size == GetWidth(es[i + 1]) * GetHeight(es[i + 1])
         IN  IF size > bestSize THEN bestLoop(es, i + 1, i, size)
             ELSE bestLoop(es, i + 1, bestIndex, bestSize)

\* Mutation of GetBestImage: >= for >, so that the last of equal sizes wins.
RECURSIVE bestLoopLast(_, _, _, _)
bestLoopLast(es, i, bestIndex, bestSize) ==
    IF i >= Len(es) THEN bestIndex
    ELSE LET size == GetWidth(es[i + 1]) * GetHeight(es[i + 1])
         IN  IF size >= bestSize THEN bestLoopLast(es, i + 1, i, size)
             ELSE bestLoopLast(es, i + 1, bestIndex, bestSize)

GetBestImageLast(o) ==
    IF Len(o.Images) = 0 THEN [index |-> -1, img |-> NULL]
    ELSE LET k == bestLoopLast(o.Entries, 0, 0,
                               GetWidth(o.Entries[1]) * GetHeight(o.Entries[1]))
         IN  [index |-> k, img |-> o.Images[k + 1]]

\* GetBestImage: the index chosen and the image returned (nil without images).
GetBestImage(o) ==
    IF Len(o.Images) = 0 THEN [index |-> -1, img |-> NULL]
    ELSE LET k == bestLoop(o.Entries, 0, 0,
                           GetWidth(o.Entries[1]) * GetHeight(o.Entries[1]))
         IN  [index |-> k, img |-> o.Images[k + 1]]

CallGetBestImage ==
    /\ pc = "returned"
    /\ ico # NULL
    /\ best = NULL
    /\ best' = GetBestImage(ico)
    /\ UNCHANGED <<data, pc, header, entries, images, ico, err, panic, sliced, route, call>>

\* scoreSizeMatch: the squared distance of an entry's size from the target.
scoreSizeMatch(entry, targetWidth, targetHeight) ==
    LET widthDiff  == GetWidth(entry) - targetWidth
        heightDiff == GetHeight(entry) - targetHeight
    IN  widthDiff * widthDiff + heightDiff * heightDiff

\* The loop of GetImageBySize over entries i..: the index it ends with.
RECURSIVE sizeLoop(_, _, _, _, _, _)
sizeLoop(es, width, height, i, bestIndex, bestScore) ==
    IF i >= Len(es) THEN bestIndex
    ELSE LET score == scoreSizeMatch(es[i + 1], width, height)
         IN  IF score < bestScore THEN sizeLoop(es, width, height, i + 1, i, score)
             ELSE sizeLoop(es, width, height, i + 1, bestIndex, bestScore)

\* Mutation of GetImageBySize: <= for <, so that the last of equal scores wins.
RECURSIVE sizeLoopLast(_, _, _, _, _, _)
sizeLoopLast(es, width, height, i, bestIndex, bestScore) ==
    IF i >= Len(es) THEN bestIndex
    ELSE LET score == scoreSizeMatch(es[i + 1], width, height)
         IN  IF score <= bestScore THEN sizeLoopLast(es, width, height, i + 1, i, score)
             ELSE sizeLoopLast(es, width, height, i + 1, bestIndex, bestScore)

GetImageBySizeLast(o, width, height) ==
    IF Len(o.Images) = 0 THEN [index |-> -1, img |-> NULL]
    ELSE LET k == sizeLoopLast(o.Entries, width, height, 0, 0,
                               scoreSizeMatch(o.Entries[1], width, height))
         IN  [index |-> k, img |-> o.Images[k + 1]]

\* GetImageBySize: the index chosen and the image returned (nil without images).
GetImageBySize(o, width, height) ==
    IF Len(o.Images) = 0 THEN [index |-> -1, img |-> NULL]
    ELSE LET k == sizeLoop(o.Entries, width, height, 0, 0,
                           scoreSizeMatch(o.Entries[1], width, height))
         IN  [index |-> k, img |-> o.Images[k + 1]]

\* The sizes a caller asks for: between, on, beyond and below the entries' sizes.
TargetSet == { <<16, 16>>, <<24, 24>>, <<48, 16>>, <<300, 300>>, <<-10, 0>> }

CallGetImageBySize ==
    /\ pc = "returned"
    /\ ico # NULL
    /\ \E t \in TargetSet :
          LET r == GetImageBySize(ico, t[1], t[2])
          IN  call' = [op |-> "GetImageBySize", width |-> t[1], height |-> t[2],
                       index |-> r.index, img |-> r.img]
    /\ UNCHANGED <<data, pc, header, entries, images, ico, err, panic, sliced, route, best>>

\* Mutation of GetAvailableSizes: X and Y exchanged.
GetAvailableSizesYX(o) ==
    [i \in 1..Len(o.Entries) |-> [X |-> GetHeight(o.Entries[i]), Y |-> GetWidth(o.Entries[i])]]

\* GetAvailableSizes: one image.Point per entry.
GetAvailableSizes(o) ==
    [i \in 1..Len(o.Entries) |-> [X |-> GetWidth(o.Entries[i]), Y |-> GetHeight(o.Entries[i])]]

CallGetAvailableSizes ==
    /\ pc = "returned"
    /\ ico # NULL
    /\ call' = [op |-> "GetAvailableSizes", sizes |-> GetAvailableSizes(ico)]
    /\ UNCHANGED <<data, pc, header, entries, images, ico, err, panic, sliced, route, best>>

(***************************************************************************)
(* DecodeConfig                                                            *)
(***************************************************************************)

\* Mutation of readFull: the whole stream is read, as io.ReadAll would.
readFullAll(d, pos, n) ==
    IF Len(d) - pos >= n
    THEN [ok |-> TRUE, buf |-> Slice(d, pos, pos + n), pos |-> Len(d)]
    ELSE [ok |-> FALSE, buf |-> Slice(d, pos, Len(d)), pos |-> Len(d)]

\* io.ReadFull(r, buf) with len(buf) = n on a reader that stands at pos: the
\* n bytes and the reader's new position, or an error with the stream read
\* to its end.
readFull(d, pos, n) ==
    IF Len(d) - pos >= n
    THEN [ok |-> TRUE, buf |-> Slice(d, pos, pos + n), pos |-> pos + n]
    ELSE [ok |-> FALSE, buf |-> Slice(d, pos, Len(d)), pos |-> Len(d)]

\* Mutation of ConfigHeaderValid: the type check is forgotten.
ConfigHeaderValidNoType(h) == ~(h.Reserved # 0 \/ h.Count = 0)

\* The header check of DecodeConfig: line 641.
ConfigHeaderValid(h) == ~(h.Reserved # 0 \/ h.Type # 1 \/ h.Count = 0)

\* Mutation of configLoop: >= for >, so that the last of equal sizes wins.
RECURSIVE configLoopLast(_, _, _, _, _)
configLoopLast(buf, count, i, maxWidth, maxHeight) ==
    IF i >= count THEN [Width |-> maxWidth, Height |-> maxHeight]
    ELSE LET entry  == ReadEntry(buf, i)
             width  == GetWidth(entry)
             height == GetHeight(entry)
         IN  IF width * height >= maxWidth * maxHeight
             THEN configLoopLast(buf, count, i + 1, width, height)
             ELSE configLoopLast(buf, count, i + 1, maxWidth, maxHeight)

\* The loop of DecodeConfig over entries i..; buf is headerBuf followed by
\* entryBuf, so that entry i lies at 6 + 16i as ReadEntry expects.
RECURSIVE configLoop(_, _, _, _, _)
configLoop(buf, count, i, maxWidth, maxHeight) ==
    IF i >= count THEN [Width |-> maxWidth, Height |-> maxHeight]
    ELSE LET entry  == ReadEntry(buf, i)
             width  == GetWidth(entry)
             height == GetHeight(entry)
         IN  IF width * height > maxWidth * maxHeight
             THEN configLoop(buf, count, i + 1, width, height)
             ELSE configLoop(buf, count, i + 1, maxWidth, maxHeight)

\* return Config{}, fmt.Errorf(...), the reader left at pos.
ConfigError(msg, pos) ==
    [op |-> "DecodeConfig", st |-> "error", Width |-> 0, Height |-> 0, Count |-> 0,
     err |-> msg, pos |-> pos]

\* DecodeConfig on a reader over the bytes d: the Config, the error and the
\* number of bytes taken from the reader.
DecodeConfig(d) ==
    LET hb == readFull(d, 0, 6)
    IN  IF ~hb.ok THEN ConfigError("failed to read ICO header", hb.pos)
        ELSE LET h == ReadHeader(hb.buf)
             IN  IF ~ConfigHeaderValid(h) THEN ConfigError("invalid ICO file", hb.pos)
                 ELSE LET eb == readFull(d, hb.pos, 16 * h.Count)
                      IN  IF ~eb.ok
                          THEN ConfigError("failed to read ICO directory entries", eb.pos)
                          ELSE LET m == configLoop(hb.buf \o eb.buf, h.Count, 0, 0, 0)
                               IN  [op |-> "DecodeConfig", st |-> "ok",
                                    Width |-> m.Width, Height |-> m.Height,
                                    Count |-> h.Count, err |-> "", pos |-> eb.pos]

\* DecodeConfig on the bytes that Decode was given.
CallDecodeConfig ==
    /\ pc = "returned"
    /\ call' = DecodeConfig(data)
    /\ UNCHANGED <<data, pc, header, entries, images, ico, err, panic, sliced, route, best>>

Next ==
    \/ DecodeHeader \/ ReadDirectoryEntry \/ DecodeEntry \/ Return
    \/ CallGetBestImage \/ CallGetImageBySize \/ CallGetAvailableSizes
    \/ CallDecodeConfig

Spec == Init /\ [][Next]_vars

(***************************************************************************)
(* What the properties below read off the raw input                        *)
(***************************************************************************)

\* The 16-bit field at 0-based offset k of the input, and at most-significant
\* bytes zero a 32-bit field's value.
Raw16(k) == data[k + 1] + 256 * data[k + 2]

RawReserved == Raw16(0)

RawType == Raw16(2)

RawCount == Raw16(4)

\* The payload of directory entry k (1-based), for an entry whose offset and
\* size are below 2^16: the bytes [Offset, Offset + Size) of the input.
EntryPayload(k) ==
    [j \in 1..entries[k].Size.lo |-> data[entries[k].Offset.lo + j]]

\* The payload starts with the eight bytes 89 50 4E 47 0D 0A 1A 0A.
HasSignature(p) ==
    /\ Len(p) >= 8
    /\ p[1] = 137 /\ p[2] = 80 /\ p[3] = 78 /\ p[4] = 71
    /\ p[5] = 13 /\ p[6] = 10 /\ p[7] = 26 /\ p[8] = 10

\* The fields of a payload's DIB header.
DibHeaderSize(p) == U32Int(LE32(p, 0))

DibWidth(p) == LEI32(p, 4)

DibHeight(p) == GoDiv(LEI32(p, 8), 2)

DibBpp(p) == p[15] + 256 * p[16]

\* A payload that reaches the depth switch of decodeBMP.
IsBmp(p) == Len(p) >= 40 /\ ~HasSignature(p)

\* 0-based payload offset of the last source byte of pixel (x, y).
PixelEnd(p, x, y) ==
    DibHeaderSize(p) + PaletteBytes(DibBpp(p))
        + (DibHeight(p) - 1 - y) * RowBytes(DibBpp(p), DibWidth(p))
        + (((x + 1) * DibBpp(p) - 1) \div 8)

\* Some pixel of the colour data has a source byte beyond the payload.
SomePixelOutside(p) ==
    \E x \in 0..(DibWidth(p) - 1), y \in 0..(DibHeight(p) - 1) : PixelEnd(p, x, y) >= Len(p)

\* 0-based payload offset one past the AND mask.
MaskEnd(p) ==
    DibHeaderSize(p) + PaletteBytes(DibBpp(p)) + XorBytes(DibBpp(p), DibWidth(p), DibHeight(p))
        + MaskBytes(DibWidth(p), DibHeight(p))

\* The image after the XOR loop alone, before any mask.
XorOf(p) ==
    LET hs == DibHeaderSize(p)
        w  == DibWidth(p)
        h  == DibHeight(p)
        b  == DibBpp(p)
    IN  CASE b = 32 -> xorLoop32(Slice(p, hs, Len(p)), w, h, 0, 0, NewRGBA(w, h))
          [] b = 24 -> xorLoop24(Slice(p, hs, Len(p)), w, h, 0, 0, NewRGBA(w, h))
          [] b = 8  -> xorLoop8(p, w, h, hs + 1024, ReadPalette(p, hs, 256), 0, 0, NewRGBA(w, h))
          [] b = 4  -> xorLoop4(p, w, h, hs + 64, ReadPalette(p, hs, 16), 0, 0, NewRGBA(w, h))
          [] b = 1  -> xorLoop1(p, w, h, hs + 8, ReadPalette(p, hs, 2), 0, 0, NewRGBA(w, h))

\* The palette and every pixel of the colour data lie inside the payload.
XorComplete(p) ==
    /\ IsBmp(p)
    /\ DibBpp(p) \in Depths
    /\ DibHeaderSize(p) + PaletteBytes(DibBpp(p)) <= Len(p)
    /\ ~SomePixelOutside(p)

\* GetWidth() * GetHeight() of an entry, from its stored bytes.
Area(e) ==
    (IF e.Width = 0 THEN 256 ELSE e.Width) * (IF e.Height = 0 THEN 256 ELSE e.Height)

Finished == pc \in {"returned", "panicked"}

(***************************************************************************)
(* The properties                                                          *)
(***************************************************************************)

\* C1: Decode is all-or-nothing: it ends by returning either a nil ICO with a
\* non-nil error or a non-nil ICO with a nil error, the ICO then holding one
\* decoded image per directory entry; it never ends any other way.
C1_AllOrNothing ==
    Finished =>
        /\ panic = NULL
        /\ \/ ico = NULL /\ err # NULL
           \/ /\ ico # NULL /\ err = NULL
              /\ Len(ico.Images) = ico.Header.Count
              /\ Len(ico.Entries) = ico.Header.Count

\* C2: a header whose reserved field is not 0, whose type is not 1 or whose
\* count is 0 makes Decode return an error and no ICO, whatever follows the
\* header; no directory entry is read and no image is decoded.
C2_MalformedHeaderFails ==
    (/\ pc # "header"
     /\ Len(data) >= 6
     /\ (RawReserved # 0 \/ RawType # 1 \/ RawCount = 0))
    => /\ pc = "returned" /\ ico = NULL /\ err # NULL
       /\ entries = <<>> /\ images = <<>>
       /\ err.msg = IF RawReserved # 0 THEN "invalid ICO file: reserved field must be 0"
                    ELSE IF RawType # 1 THEN "unsupported file type"
                    ELSE "ICO file contains no images"

\* Witness of C2: Decode has rejected a header with count 0 that is followed
\* by a valid directory entry and image.
C2_Witness ==
    /\ pc = "returned" /\ err # NULL /\ ico = NULL
    /\ Len(data) > 22
    /\ RawReserved = 0 /\ RawType = 1 /\ RawCount = 0

\* C3: the input is sliced for an entry only if offset < len(input) and the
\* mathematical sum offset + size <= len(input); an entry violating this
\* makes Decode return an error, and never panic in its slice expression.
C3_SliceOnlyInBounds ==
    /\ \A k \in 1..Len(sliced) :
          LET e == entries[sliced[k] + 1]
          IN  /\ e.Offset.hi = 0 /\ e.Offset.lo < Len(data)
              /\ e.Size.hi = 0 /\ e.Offset.lo + e.Size.lo <= Len(data)
    /\ (panic # NULL => panic.via # "Decode")

\* C4: decodeBMP and the five depth decoders never read or slice outside the
\* payload: every attempted decode of an entry ends with an image or with a
\* returned error.
C4_BMPBoundsSafe ==
    \A k \in 1..Len(route) : route[k].st \in {"ok", "error"}

\* C5: after a successful Decode the ICO holds Header.Count > 0 entries and as
\* many images; entry i is the 16 bytes at 6+16i of the input, and image i is
\* the image decoded from the bytes [Offset, Offset+Size) of the input.
C5_EntriesAndImages ==
    ico # NULL /\ data # <<>> =>
        /\ ico.Header.Count = RawCount /\ RawCount > 0
        /\ Len(ico.Entries) = RawCount /\ Len(ico.Images) = RawCount
        /\ \A i \in 1..RawCount :
              LET b   == 6 + 16 * (i - 1)
                  e   == ico.Entries[i]
                  off == Raw16(b + 12)
                  sz  == Raw16(b + 8)
              IN  /\ e.Width = data[b + 1] /\ e.Height = data[b + 2]
                  /\ e.ColorCount = data[b + 3] /\ e.Reserved = data[b + 4]
                  /\ e.ColorPlanes = Raw16(b + 4) /\ e.BitsPerPixel = Raw16(b + 6)
                  /\ e.Size = [lo |-> sz, hi |-> Raw16(b + 10)]
                  /\ e.Offset = [lo |-> off, hi |-> Raw16(b + 14)]
                  /\ Raw16(b + 10) = 0 /\ Raw16(b + 14) = 0
                  /\ off + sz <= Len(data)
                  /\ \E pngOK \in BOOLEAN :
                        LET r == decodeImage([j \in 1..sz |-> data[off + j]], e, pngOK)
                        IN  r.st = "ok" /\ r.img = ico.Images[i]

\* Witness of C5: a decoded file of three images whose payloads do not lie in
\* directory order.
C5_Witness ==
    /\ ico # NULL /\ Len(ico.Images) = 3
    /\ ico.Entries[1].Offset.lo > ico.Entries[2].Offset.lo
    /\ ico.Images[1] # ico.Images[2]

\* C6: a payload goes to the PNG delegate exactly when it has at least 8 bytes
\* and starts with the PNG signature; every other payload is decoded by
\* decodeBMP; an error of the delegate makes Decode return that error and no
\* ICO.
C6_FormatDispatch ==
    \A k \in 1..Len(route) :
        /\ (route[k].via = "png.Decode") <=> HasSignature(EntryPayload(k))
        /\ ~HasSignature(EntryPayload(k)) =>
              route[k].via \in {"decodeBMP", "decodeBMP32", "decodeBMP24", "decodeBMP8",
                                "decodeBMP4", "decodeBMP1"}
        /\ (route[k].via = "png.Decode" /\ route[k].st = "error") =>
              /\ pc = "returned" /\ ico = NULL /\ err # NULL
              /\ err.index = k - 1 /\ Len(images) = k - 1

\* Witness of C6: the delegate was handed a payload and its error ended Decode.
C6_Witness ==
    /\ Len(route) = 1 /\ route[1].via = "png.Decode" /\ route[1].st = "error"
    /\ pc = "returned" /\ err # NULL
    /\ Len(EntryPayload(1)) > 8

\* C7: a BMP payload whose bitsPerPixel is none of 32, 24, 8, 4, 1 makes the
\* entry fail with the unsupported-bit-depth error and Decode return no ICO;
\* each of the five supported values selects its own depth decoder.
C7_DepthDispatch ==
    \A k \in 1..Len(route) :
        LET p == EntryPayload(k)
            b == DibBpp(p)
            own == CASE b = 32 -> "decodeBMP32" [] b = 24 -> "decodeBMP24"
                     [] b = 8 -> "decodeBMP8" [] b = 4 -> "decodeBMP4"
                     [] b = 1 -> "decodeBMP1" [] OTHER -> "none"
        IN  IsBmp(p) =>
              IF b \in {32, 24, 8, 4, 1}
              THEN \/ route[k].via = own
                   \/ b \in {32, 24} /\ route[k].via = "decodeBMP" /\ route[k].st = "panic"
              ELSE /\ route[k] = [via |-> "decodeBMP", st |-> "error"]
                   /\ pc = "returned" /\ ico = NULL /\ err # NULL
                   /\ err = [msg |-> "unsupported BMP bit depth", index |-> k - 1]

\* Witness of C7: an entry of depth 16 has been rejected.
C7_Witness ==
    /\ Len(route) = 1 /\ IsBmp(EntryPayload(1)) /\ DibBpp(EntryPayload(1)) = 16
    /\ pc = "returned" /\ err # NULL /\ err.msg = "unsupported BMP bit depth"

\* C8: at every depth, for width > 0 and height > 0, when the source bytes of
\* some pixel of the colour data lie beyond the end of the payload, the entry
\* fails with a truncation error and Decode returns no ICO.
C8_TruncationFatal ==
    \A k \in 1..Len(route) :
        LET p == EntryPayload(k)
        IN  (/\ IsBmp(p) /\ DibBpp(p) \in Depths
             /\ DibWidth(p) > 0 /\ DibHeight(p) > 0
             /\ SomePixelOutside(p))
            => /\ pc = "returned" /\ ico = NULL /\ err # NULL
               /\ err.index = k - 1
               /\ err.msg \in {"BMP data truncated", "BMP palette data truncated"}

\* C9: at every depth, when the colour data is complete but the AND mask's
\* byte range does not fit in the payload, the entry decodes and its image is
\* exactly the image of the XOR loop: no part of a mask is applied.
C9_MaskAllOrNothing ==
    \A k \in 1..Len(route) :
        LET p == EntryPayload(k)
        IN  (XorComplete(p) /\ (DibWidth(p) <= 0 \/ DibHeight(p) <= 0 \/ MaskEnd(p) > Len(p)))
            => /\ route[k].st = "ok"
               /\ Len(images) >= k
               /\ images[k] = XorOf(p).img

\* Witness of C9: a decoded image that kept a visible pixel although the
\* payload holds a part of an AND mask.
C9_Witness ==
    /\ ico # NULL /\ Len(route) = 1
    /\ LET p == EntryPayload(1)
       IN  /\ XorComplete(p) /\ DibWidth(p) > 0 /\ DibHeight(p) > 1
           /\ MaskEnd(p) > Len(p)
           /\ MaskEnd(p) - MaskBytes(DibWidth(p), DibHeight(p)) < Len(p)
           /\ \E q \in DOMAIN ico.Images[1].pix : ico.Images[1].pix[q].A # 0

\* C10: GetBestImage returns Images[k] for the smallest index k whose entry
\* has the largest GetWidth() * GetHeight(); it returns nil only when there is
\* no entry.
C10_BestImage ==
    best # NULL =>
        IF Len(ico.Entries) = 0 THEN best.img = NULL
        ELSE /\ best.index \in 0..(Len(ico.Entries) - 1)
             /\ \A j \in 1..Len(ico.Entries) :
                   /\ Area(ico.Entries[j]) <= Area(ico.Entries[best.index + 1])
                   /\ j < best.index + 1 =>
                         Area(ico.Entries[j]) < Area(ico.Entries[best.index + 1])
             /\ best.img = ico.Images[best.index + 1]
             /\ best.img # NULL

\* Witness of C10: over entries of 16x16, 32x32 and 32x32 the first 32x32
\* image was returned.
C10_Witness ==
    /\ best # NULL /\ Len(ico.Entries) = 3
    /\ Area(ico.Entries[1]) = 256 /\ Area(ico.Entries[2]) = 1024
    /\ Area(ico.Entries[3]) = 1024
    /\ ico.Entries[2].Width = 32 /\ ico.Entries[3].Width = 32
    /\ best.index = 1 /\ best.img = ico.Images[2]


\* Bounds().Dx() * Bounds().Dy() of a decoded bitmap.
Pixels(img) == (img.maxX - img.minX) * (img.maxY - img.minY)

\* C11: for an ICO returned by Decode, the image GetBestImage returns has at
\* least as many pixels (bounds width x height) as every image in Images.
C11_BestHasMostPixels ==
    (best # NULL /\ data # <<>> /\ \A j \in 1..Len(ico.Images) : ico.Images[j].kind = "rgba")
        => \A j \in 1..Len(ico.Images) : Pixels(ico.Images[j]) <= Pixels(best.img)

\* The squared distance of the size an entry's bytes state from (w, h).
Dist(e, w, h) ==
    LET ew == IF e.Width = 0 THEN 256 ELSE e.Width
        eh == IF e.Height = 0 THEN 256 ELSE e.Height
    IN  (ew - w) * (ew - w) + (eh - h) * (eh - h)

C13_AvailableSizes ==
    (call # NULL /\ call.op = "GetAvailableSizes") =>
        /\ Len(call.sizes) = Len(ico.Entries)
        /\ Len(call.sizes) = Len(ico.Images)
        /\ \A i \in 1..Len(ico.Entries) :
              /\ call.sizes[i].X = GetWidth(ico.Entries[i])
              /\ call.sizes[i].Y = GetHeight(ico.Entries[i])

\* Witness of C13: the sizes of three entries of different widths and heights.
C13_Witness ==
    /\ call # NULL /\ call.op = "GetAvailableSizes"
    /\ Len(call.sizes) = 3
    /\ call.sizes[1] = [X |-> 64, Y |-> 16]
    /\ call.sizes[2] = [X |-> 256, Y |-> 256]
    /\ call.sizes[3] = [X |-> 8, Y |-> 8]

\* C14: for every stored byte v, GetWidth() and GetHeight() give 256 for
\* v = 0 and v for 1 <= v <= 255, a value in 1..256.
C14_EffectiveSize ==
    (call # NULL /\ call.op = "GetAvailableSizes") =>
        \A i \in 1..Len(call.sizes) :
            LET vw == data[6 + 16 * (i - 1) + 1]
                vh == data[6 + 16 * (i - 1) + 2]
            IN  /\ vw \in 0..255 /\ vh \in 0..255
                /\ call.sizes[i].X = (IF vw = 0 THEN 256 ELSE vw)
                /\ call.sizes[i].Y = (IF vh = 0 THEN 256 ELSE vh)
                /\ call.sizes[i].X \in 1..256 /\ call.sizes[i].Y \in 1..256

\* Witness of C14: an entry of width byte 255 and height byte 0.
C14_Witness ==
    /\ call # NULL /\ call.op = "GetAvailableSizes"
    /\ Len(call.sizes) = 1
    /\ data[7] = 255 /\ data[8] = 0
    /\ call.sizes[1] = [X |-> 255, Y |-> 256]

\* The size a stored byte stands for.
Eff(v) == IF v = 0 THEN 256 ELSE v

\* The width and height bytes of directory entry i (1-based) of the input.
RawWidth(i) == data[6 + 16 * (i - 1) + 1]

RawHeight(i) == data[6 + 16 * (i - 1) + 2]

RawArea(i) == Eff(RawWidth(i)) * Eff(RawHeight(i))

\* The input holds a header that passes the three checks.
RawHeaderValid ==
    Len(data) >= 6 /\ RawReserved = 0 /\ RawType = 1 /\ RawCount # 0

\* The input holds a valid header and the whole directory.
RawDirectoryComplete == RawHeaderValid /\ Len(data) >= 6 + 16 * RawCount

ConfigCalled == call # NULL /\ call.op = "DecodeConfig"

\* C15: DecodeConfig never takes a byte beyond the header and the directory
\* from its reader; when the stream holds a valid header and the whole
\* directory (and nothing or anything after it) it succeeds, has taken exactly
\* 6 + 16*count bytes, and reports the count and the size of the first entry
\* of largest area.
C15_ConfigReadsDirectoryOnly ==
    ConfigCalled =>
        /\ call.pos <= 6 \/ (RawHeaderValid /\ call.pos <= 6 + 16 * RawCount)
        /\ RawDirectoryComplete =>
              /\ call.st = "ok"
              /\ call.pos = 6 + 16 * RawCount
              /\ call.Count = RawCount
              /\ \E k \in 1..RawCount :
                    /\ call.Width = Eff(RawWidth(k)) /\ call.Height = Eff(RawHeight(k))
                    /\ \A j \in 1..RawCount :
                          /\ RawArea(j) <= RawArea(k)
                          /\ j < k => RawArea(j) < RawArea(k)

\* Witness of C15: a stream of three entries that ends with the directory.
C15_Witness ==
    /\ ConfigCalled /\ call.st = "ok"
    /\ Len(data) = 54 /\ RawCount = 3 /\ call.pos = 54
    /\ call.Count = 3 /\ call.Width = 64 /\ call.Height = 16
    /\ RawArea(1) = 256 /\ RawArea(2) = 1024 /\ RawArea(3) = 1024
    /\ ico = NULL /\ err # NULL

\* C16: on every input that Decode decodes, DecodeConfig succeeds, its Count
\* is len(Images), and its Width and Height are GetWidth() and GetHeight() of
\* the entry whose image GetBestImage returns.
C16_ConfigAgreesWithDecode ==
    (ConfigCalled /\ ico # NULL /\ data # <<>>) =>
        /\ call.st = "ok"
        /\ call.Count = Len(ico.Images)
        /\ best # NULL =>
              /\ best.img = ico.Images[best.index + 1]
              /\ call.Width = GetWidth(ico.Entries[best.index + 1])
              /\ call.Height = GetHeight(ico.Entries[best.index + 1])

\* Witness of C16: entries of 16x16, 64x16 and 32x32; both report the second.
C16_Witness ==
    /\ ConfigCalled /\ ico # NULL /\ best # NULL
    /\ Len(ico.Images) = 3 /\ call.Count = 3
    /\ ico.Entries[1].Width = 16
    /\ ico.Entries[2].Width = 64 /\ ico.Entries[2].Height = 16
    /\ ico.Entries[3].Width = 32 /\ ico.Entries[3].Height = 32
    /\ best.index = 1 /\ call.Width = 64 /\ call.Height = 16

\* The kind of an error, as a caller tells it from the message: an invalid
\* file, an unsupported container type, a file without images.
ErrorKind(msg) ==
    CASE msg \in {"invalid ICO file: reserved field must be 0", "invalid ICO file"} ->
           "InvalidFormat"
      [] msg = "unsupported file type" -> "UnsupportedContainerType"
      [] msg = "ICO file contains no images" -> "EmptyFile"
      [] OTHER -> "other"

\* Decode has returned the error of one of its three header checks.
DecodeRejectedHeader ==
    /\ pc = "returned" /\ ico = NULL /\ err # NULL /\ err.index = -1
    /\ err.msg \in {"invalid ICO file: reserved field must be 0", "unsupported file type",
                    "ICO file contains no images"}

\* C17 as stated: DecodeConfig fails its header validation exactly when
\* Decode's fails, and the error it reports is of the kind Decode reports.
C17_SameErrorKinds ==
    (ConfigCalled /\ Len(data) >= 6) =>
        /\ (call.err = "invalid ICO file") <=> DecodeRejectedHeader
        /\ DecodeRejectedHeader => ErrorKind(call.err) = ErrorKind(err.msg)

\* C17 amended: DecodeConfig fails its header validation exactly when
\* Decode's fails (reserved # 0, type # 1 or count = 0), before it reads any
\* directory byte, but it reports the one error "invalid ICO file" for all
\* three faults: its kind is that of Decode's error only for reserved # 0.
C17_SameValidationOneError ==
    (ConfigCalled /\ Len(data) >= 6) =>
        /\ (call.err = "invalid ICO file") <=> DecodeRejectedHeader
        /\ DecodeRejectedHeader <=> ~RawHeaderValid
        /\ ~RawHeaderValid =>
              /\ call.st = "error" /\ call.pos = 6
              /\ call.Width = 0 /\ call.Height = 0 /\ call.Count = 0
              /\ ErrorKind(call.err) = "InvalidFormat"
              /\ (ErrorKind(err.msg) = ErrorKind(call.err)) <=> (RawReserved # 0)

\* Witness of C17: a header of type 2 followed by an entry and an image;
\* Decode reports the unsupported type, DecodeConfig an invalid file.
C17_Witness ==
    /\ ConfigCalled /\ Len(data) = 70
    /\ RawReserved = 0 /\ RawType = 2 /\ RawCount = 1
    /\ err # NULL /\ err.msg = "unsupported file type"
    /\ call.err = "invalid ICO file"

\* The input is shorter than its header, or than the directory that its
\* valid header announces.
TooShort ==
    Len(data) < 6 \/ (RawHeaderValid /\ Len(data) < 6 + 16 * RawCount)

\* C18: on an input shorter than 6 bytes, or with a valid header and fewer
\* than 6 + 16*count bytes, Decode returns an error and no ICO, and
\* DecodeConfig returns an error and the zero Config.
C18_TooShortRejected ==
    (TooShort /\ ico # ZeroICO) =>
        /\ pc # "panicked" /\ ico = NULL /\ Len(images) = 0
        /\ pc = "returned" =>
              /\ err # NULL
              /\ err.msg \in {"ICO file too short", "failed to read directory entry"}
        /\ ConfigCalled =>
              /\ call.st = "error"
              /\ call.Width = 0 /\ call.Height = 0 /\ call.Count = 0
              /\ call.err \in {"failed to read ICO header",
                               "failed to read ICO directory entries"}

\* Witness of C18: an input that ends one byte before the end of its only
\* directory entry, rejected by both.
C18_Witness ==
    /\ ConfigCalled /\ Len(data) = 21 /\ RawHeaderValid /\ RawCount = 1
    /\ pc = "returned" /\ ico = NULL /\ err # NULL
    /\ err.msg = "failed to read directory entry"
    /\ call.st = "error" /\ call.err = "failed to read ICO directory entries"

\* The AND mask of payload p is applied and its bit for pixel (x, y) is 1.
RawMaskBit(p, x, y) ==
    /\ MaskEnd(p) <= Len(p)
    /\ LET off == MaskEnd(p) - MaskBytes(DibWidth(p), DibHeight(p))
                    + (DibHeight(p) - 1 - y) * RowBytes(1, DibWidth(p)) + (x \div 8)
       IN  (p[off + 1] \div (2 ^ (7 - (x % 8)))) % 2 = 1

\* The source bytes of pixel (x, y) of a 32- or 24-bit payload, as a colour:
\* the bytes lie in the order B, G, R (, A); 24-bit pixels have alpha 255.
RawPixel(p, x, y) ==
    LET last == PixelEnd(p, x, y) + 1
    IN  IF DibBpp(p) = 32
        THEN [R |-> p[last - 1], G |-> p[last - 2], B |-> p[last - 3], A |-> p[last]]
        ELSE [R |-> p[last], G |-> p[last - 1], B |-> p[last - 2], A |-> 255]

\* Image k is a decoded bitmap of direct colour.
DirectColour(k) ==
    /\ IsBmp(EntryPayload(k)) /\ DibBpp(EntryPayload(k)) \in {32, 24}
    /\ images[k].kind = "rgba"

\* C19: in a 32-bit image a pixel is the bytes B, G, R, A and its alpha is the
\* A byte; in a 24-bit image it is the bytes B, G, R and its alpha is 255
\* (the AND mask aside); a decoded pixel of alpha 255 has exactly the colour
\* (R, G, B).
C19_DirectColour ==
    \A k \in 1..Len(images) :
        DirectColour(k) =>
            LET p == EntryPayload(k)
            IN  \A x \in 0..(DibWidth(p) - 1), y \in 0..(DibHeight(p) - 1) :
                    LET px  == images[k].pix[<<x, y>>]
                        src == RawPixel(p, x, y)
                    IN  /\ ~RawMaskBit(p, x, y) => px.A = src.A
                        /\ px.A = 255 =>
                              px.R = src.R /\ px.G = src.G /\ px.B = src.B

\* Witness of C19: the bytes 00 00 FF FF have been decoded to (255, 0, 0, 255).
C19_Witness ==
    /\ ico # NULL /\ Len(ico.Images) = 1 /\ Len(images) = 1 /\ DirectColour(1)
    /\ DibBpp(EntryPayload(1)) = 32
    /\ SubSeq(EntryPayload(1), 41, 44) = <<0, 0, 255, 255>>
    /\ ico.Images[1].pix[<<0, 0>>] = [R |-> 255, G |-> 0, B |-> 0, A |-> 255]

\* C20 as stated: a 32-bit source pixel (B, G, R, A) is stored with the colour
\* channels R, G, B and the alpha A, whatever A is.
C20_StraightAlpha ==
    \A k \in 1..Len(images) :
        (DirectColour(k) /\ DibBpp(EntryPayload(k)) = 32) =>
            LET p == EntryPayload(k)
            IN  \A x \in 0..(DibWidth(p) - 1), y \in 0..(DibHeight(p) - 1) :
                    ~RawMaskBit(p, x, y) => images[k].pix[<<x, y>>] = RawPixel(p, x, y)

\* A colour channel c scaled by the alpha a, in 8 bits.
Scaled(c, a) == ((c * 257 * a) \div 255) \div 256

\* C20 amended: the image is an image.RGBA of alpha-premultiplied pixels: a
\* 32-bit source pixel (B, G, R, A) that the mask leaves alone is stored with
\* the alpha A and each colour channel scaled by A/255: the channel itself
\* for A = 255, 0 for A = 0, never more than the channel or than A.
C20_PremultipliedAlpha ==
    \A k \in 1..Len(images) :
        (DirectColour(k) /\ DibBpp(EntryPayload(k)) = 32) =>
            LET p == EntryPayload(k)
            IN  \A x \in 0..(DibWidth(p) - 1), y \in 0..(DibHeight(p) - 1) :
                    LET px  == images[k].pix[<<x, y>>]
                        src == RawPixel(p, x, y)
                    IN  ~RawMaskBit(p, x, y) =>
                          /\ px.A = src.A
                          /\ px.R = Scaled(src.R, src.A)
                          /\ px.G = Scaled(src.G, src.A)
                          /\ px.B = Scaled(src.B, src.A)
                          /\ px.R <= src.R /\ px.G <= src.G /\ px.B <= src.B
                          /\ px.R <= px.A /\ px.G <= px.A /\ px.B <= px.A
                          /\ src.A = 255 => px = src
                          /\ src.A = 0 => px = [R |-> 0, G |-> 0, B |-> 0, A |-> 0]

\* Witness of C20: the bytes 0A 64 C8 80 (B = 10, G = 100, R = 200, A = 128)
\* have been stored as (100, 50, 5, 128).
C20_Witness ==
    /\ ico # NULL /\ Len(ico.Images) = 1 /\ Len(images) = 1 /\ DirectColour(1)
    /\ DibBpp(EntryPayload(1)) = 32
    /\ SubSeq(EntryPayload(1), 41, 44) = <<10, 100, 200, 128>>
    /\ ~RawMaskBit(EntryPayload(1), 0, 0)
    /\ ico.Images[1].pix[<<0, 0>>] = [R |-> 100, G |-> 50, B |-> 5, A |-> 128]

\* Entry k has been decoded to a bitmap of positive width and height.
DecodedBitmap(k) ==
    /\ IsBmp(EntryPayload(k)) /\ DibBpp(EntryPayload(k)) \in Depths
    /\ images[k].kind = "rgba"
    /\ DibWidth(EntryPayload(k)) > 0 /\ DibHeight(EntryPayload(k)) > 0

\* Entry i (0-based) of the palette of payload p: bytes B, G, R, reserved.
PaletteAt(p, i) ==
    LET o == DibHeaderSize(p) + 4 * i
    IN  [R |-> p[o + 3], G |-> p[o + 2], B |-> p[o + 1], A |-> 255]

\* The colour of pixel x of the stored row that starts at 0-based offset ro.
ColourAt(p, ro, x) ==
    CASE DibBpp(p) = 32 ->
           [R |-> p[ro + 4 * x + 3], G |-> p[ro + 4 * x + 2], B |-> p[ro + 4 * x + 1],
            A |-> p[ro + 4 * x + 4]]
      [] DibBpp(p) = 24 ->
           [R |-> p[ro + 3 * x + 3], G |-> p[ro + 3 * x + 2], B |-> p[ro + 3 * x + 1],
            A |-> 255]
      [] DibBpp(p) = 8 -> PaletteAt(p, p[ro + x + 1])
      [] DibBpp(p) = 4 ->
           PaletteAt(p, IF x % 2 = 0 THEN p[ro + (x \div 2) + 1] \div 16
                        ELSE p[ro + (x \div 2) + 1] % 16)
      [] DibBpp(p) = 1 ->
           PaletteAt(p, (p[ro + (x \div 8) + 1] \div (2 ^ (7 - (x % 8)))) % 2)

\* The mask bit of pixel x of the stored mask row that starts at offset ro.
MaskBitAt(p, ro, x) == (p[ro + (x \div 8) + 1] \div (2 ^ (7 - (x % 8)))) % 2

\* What an image.RGBA holds after Set with the straight-alpha colour c.
Stored(c) ==
    [R |-> Scaled(c.R, c.A), G |-> Scaled(c.G, c.A), B |-> Scaled(c.B, c.A), A |-> c.A]

\* 0-based payload offset of the first byte of the colour data.
XorBase(p) == DibHeaderSize(p) + PaletteBytes(DibBpp(p))

\* The pixel decoded from the colour row at xorRow and the mask row at
\* maskRow, the mask being applied when maskEnd is inside the payload.
PixelFrom(p, xorRow, maskRow, maskEnd, x) ==
    IF maskEnd <= Len(p) /\ MaskBitAt(p, maskRow, x) = 1
    THEN [R |-> 0, G |-> 0, B |-> 0, A |-> 0]
    ELSE Stored(ColourAt(p, xorRow, x))

\* C21: at every depth, row y of the image (0 = top) is decoded from stored
\* row height-1-y of the colour data, and masked by stored row height-1-y of
\* the AND mask: the first stored row is the bottom row of the image.
C21_BottomUpRows ==
    \A k \in 1..Len(images) :
        DecodedBitmap(k) =>
            LET p  == EntryPayload(k)
                w  == DibWidth(p)
                h  == DibHeight(p)
                xs == RowBytes(DibBpp(p), w)
                ms == RowBytes(1, w)
                mb == XorBase(p) + h * xs
            IN  /\ \A x \in 0..(w - 1), y \in 0..(h - 1) :
                      images[k].pix[<<x, y>>] =
                          PixelFrom(p, XorBase(p) + (h - 1 - y) * xs,
                                    mb + (h - 1 - y) * ms, mb + h * ms, x)
                /\ \A x \in 0..(w - 1) :
                      images[k].pix[<<x, h - 1>>] =
                          PixelFrom(p, XorBase(p), mb, mb + h * ms, x)

\* Witness of C21: the 2x2 bitmap that stores red, green and then blue, white,
\* its first stored mask row hiding the left pixel: blue and white are on
\* top, and below them a transparent pixel and green.
C21_Witness ==
    /\ ico # NULL /\ Len(images) = 1 /\ DecodedBitmap(1)
    /\ DibBpp(EntryPayload(1)) = 32 /\ Len(EntryPayload(1)) = 64
    /\ SubSeq(EntryPayload(1), 41, 56)
         = <<0, 0, 255, 255, 0, 255, 0, 255, 255, 0, 0, 255, 255, 255, 255, 255>>
    /\ SubSeq(EntryPayload(1), 57, 64) = <<128, 0, 0, 0, 0, 0, 0, 0>>
    /\ ico.Images[1].pix[<<0, 0>>] = [R |-> 0, G |-> 0, B |-> 255, A |-> 255]
    /\ ico.Images[1].pix[<<1, 0>>] = [R |-> 255, G |-> 255, B |-> 255, A |-> 255]
    /\ ico.Images[1].pix[<<0, 1>>] = [R |-> 0, G |-> 0, B |-> 0, A |-> 0]
    /\ ico.Images[1].pix[<<1, 1>>] = [R |-> 0, G |-> 255, B |-> 0, A |-> 255]

\* The widths over which the row sizes of the decoders are compared.
StrideW == 33

\* The smallest multiple of 4 that is at least ceil(bits / 8).
Stride(bits) ==
    CHOOSE s \in { 4 * t : t \in 0..((bits \div 32) + 1) } :
        /\ 8 * s >= bits
        /\ \A t \in { 4 * u : u \in 0..((bits \div 32) + 1) } : 8 * t >= bits => s <= t

\* C22: at every depth d and width w >= 1 the distance between stored colour
\* rows is the smallest multiple of 4 that is >= ceil(w*d/8), and between
\* mask rows the smallest multiple of 4 that is >= ceil(w/8); every pixel is
\* decoded from the bytes before the padding of its row.
C22_RowStride ==
    /\ \A w \in 1..StrideW :
          /\ PadRow(w * 4) = Stride(32 * w)
          /\ PadRow(w * 3) = Stride(24 * w)
          /\ PadRow(w) = Stride(8 * w)
          /\ PadRow(GoDiv(w + 1, 2)) = Stride(4 * w)
          /\ PadRow(GoDiv(w + 7, 8)) = Stride(w)
          /\ AndStride(w) = Stride(w)
    /\ \A k \in 1..Len(images) :
          DecodedBitmap(k) =>
              LET p  == EntryPayload(k)
                  w  == DibWidth(p)
                  h  == DibHeight(p)
                  xs == Stride(w * DibBpp(p))
                  ms == Stride(w)
                  mb == XorBase(p) + h * xs
              IN  \A x \in 0..(w - 1), y \in 0..(h - 1) :
                      /\ ((x + 1) * DibBpp(p) + 7) \div 8 <= (w * DibBpp(p) + 7) \div 8
                      /\ images[k].pix[<<x, y>>] =
                             PixelFrom(p, XorBase(p) + (h - 1 - y) * xs,
                                       mb + (h - 1 - y) * ms, mb + h * ms, x)

\* Witness of C22: a decoded bitmap of 24 bits, 3 wide and 2 high: rows of 9
\* bytes lie 12 apart, and the top row is decoded from the second of them.
C22_Witness ==
    /\ ico # NULL /\ Len(images) = 1 /\ DecodedBitmap(1)
    /\ DibBpp(EntryPayload(1)) = 24
    /\ DibWidth(EntryPayload(1)) = 3 /\ DibHeight(EntryPayload(1)) = 2
    /\ Stride(72) = 12
    /\ Len(EntryPayload(1)) = 40 + 24
    /\ ico.Images[1].pix[<<0, 0>>] = Stored(ColourAt(EntryPayload(1), 52, 0))
    /\ ico.Images[1].pix[<<0, 0>>] # Stored(ColourAt(EntryPayload(1), 49, 0))

\* The stored (doubled) height field of a payload's DIB header.
DibStoredHeight(p) == LEI32(p, 8)

\* C23: the image decoded from a BMP entry is as wide as the DIB header's
\* width field and as high as its stored height divided by 2 (integer
\* division), and its AND mask begins (height/2) colour rows after the
\* colour data's base.
C23_DoubledHeight ==
    \A k \in 1..Len(images) :
        (IsBmp(EntryPayload(k)) /\ images[k].kind = "rgba") =>
            LET p  == EntryPayload(k)
                w  == DibWidth(p)
                h  == GoDiv(DibStoredHeight(p), 2)
                mb == XorBase(p) + h * RowBytes(DibBpp(p), w)
            IN  /\ images[k].maxX - images[k].minX = w
                /\ images[k].maxY - images[k].minY = h
                /\ (w > 0 /\ h > 0 /\ mb + h * RowBytes(1, w) <= Len(p)) =>
                      \A x \in 0..(w - 1), y \in 0..(h - 1) :
                          MaskBitAt(p, mb + (h - 1 - y) * RowBytes(1, w), x) = 1
                              => images[k].pix[<<x, y>>].A = 0

\* The AND mask of decoded bitmap k lies inside the payload: it is applied.
MaskApplied(k) == DecodedBitmap(k) /\ MaskEnd(EntryPayload(k)) <= Len(EntryPayload(k))

\* C24: where the mask is applied, the bit of pixel (x, y) is bit 7-(x mod 8)
\* of byte x div 8 of stored mask row height-1-y; a bit of 1 makes the
\* pixel's alpha 0 whatever the colour data gave, a bit of 0 leaves the alpha
\* of the colour data: the mask never raises an alpha.
C24_MaskSemantics ==
    \A k \in 1..Len(images) :
        MaskApplied(k) =>
            LET p  == EntryPayload(k)
                w  == DibWidth(p)
                h  == DibHeight(p)
                mb == MaskEnd(p) - MaskBytes(w, h)
            IN  \A x \in 0..(w - 1), y \in 0..(h - 1) :
                    LET byte == p[mb + (h - 1 - y) * RowBytes(1, w) + (x \div 8) + 1]
                        bit  == (byte \div (2 ^ (7 - (x % 8)))) % 2
                        xorA == ColourAt(p, XorBase(p)
                                            + (h - 1 - y) * RowBytes(DibBpp(p), w), x).A
                    IN  /\ bit = 1 => images[k].pix[<<x, y>>].A = 0
                        /\ bit = 0 => images[k].pix[<<x, y>>].A = xorA
                        /\ images[k].pix[<<x, y>>].A <= xorA

\* Witness of C24: in a bitmap wider than 8 the ninth pixel of a row, whose
\* bit is the top bit of the second mask byte, is hidden, and another pixel of
\* that row, of bit 0, is opaque.
C24_Witness ==
    /\ ico # NULL /\ Len(images) = 1 /\ MaskApplied(1)
    /\ DibWidth(EntryPayload(1)) > 8
    /\ LET p  == EntryPayload(1)
           mb == MaskEnd(p) - MaskBytes(DibWidth(p), DibHeight(p))
       IN  /\ p[mb + 2] >= 128
           /\ ico.Images[1].pix[<<8, DibHeight(p) - 1>>].A = 0
           /\ \E x \in 0..7 :
                 /\ MaskBitAt(p, mb, x) = 0
                 /\ ico.Images[1].pix[<<x, DibHeight(p) - 1>>].A = 255

\* Entry k is a bitmap of depth bpp that reached its depth decoder.
RoutedDepth(k, bpp) == IsBmp(EntryPayload(k)) /\ DibBpp(EntryPayload(k)) = bpp

\* The colour of palette index i of payload p, from the bytes B, G, R, reserved
\* at headerSize + 4i, with alpha 255.
PaletteColour(p, i) ==
    [R |-> p[DibHeaderSize(p) + 4 * i + 3], G |-> p[DibHeaderSize(p) + 4 * i + 2],
     B |-> p[DibHeaderSize(p) + 4 * i + 1], A |-> 255]

\* Entry k failed because its palette does not fit in the payload.
PaletteTruncated(k) ==
    /\ route[k] = [via |-> "decodeBMP" \o ToString(DibBpp(EntryPayload(k))), st |-> "error"]
    /\ pc = "returned" /\ ico = NULL /\ err # NULL
    /\ err = [msg |-> "BMP palette data truncated", index |-> k - 1]

\* Every pixel of decoded bitmap k has, before the mask, the colour of the
\* palette entry index(x, y), with alpha 255, and keeps it unless the mask
\* hides it.
PalettePixels(k, index) ==
    LET p == EntryPayload(k)
    IN  \A x \in 0..(DibWidth(p) - 1), y \in 0..(DibHeight(p) - 1) :
            /\ XorOf(p).img.pix[<<x, y>>] = PaletteColour(p, index[<<x, y>>])
            /\ ~RawMaskBit(p, x, y) => images[k].pix[<<x, y>>] = PaletteColour(p, index[<<x, y>>])

\* C25: at 8 bits the palette is 256 entries of 4 bytes (B, G, R, reserved)
\* at headerSize, the pixel data starts at headerSize + 1024, each pixel is
\* one byte, the index of its palette entry, and has alpha 255 before the
\* mask; a payload shorter than headerSize + 1024 fails with the
\* palette-truncated error.
C25_Decode8 ==
    \A k \in 1..Len(route) :
        RoutedDepth(k, 8) =>
            LET p == EntryPayload(k)
                index(x, y) ==
                    p[DibHeaderSize(p) + 1024
                        + (DibHeight(p) - 1 - y) * RowBytes(8, DibWidth(p)) + x + 1]
            IN  /\ Len(p) < DibHeaderSize(p) + 1024 => PaletteTruncated(k)
                /\ (Len(images) >= k /\ DecodedBitmap(k)) =>
                      PalettePixels(k, [c \in (0..(DibWidth(p) - 1)) \X (0..(DibHeight(p) - 1))
                                           |-> index(c[1], c[2])])

\* Witness of C25: a decoded 8-bit bitmap whose pixels come from different
\* palette entries.
C25_Witness ==
    /\ ico # NULL /\ Len(route) = 1 /\ RoutedDepth(1, 8) /\ DecodedBitmap(1)
    /\ DibWidth(EntryPayload(1)) = 2 /\ DibHeaderSize(EntryPayload(1)) = 40
    /\ EntryPayload(1)[40 + 1024 + 1] # EntryPayload(1)[40 + 1024 + 2]
    /\ ico.Images[1].pix[<<0, DibHeight(EntryPayload(1)) - 1>>]
         = PaletteColour(EntryPayload(1), EntryPayload(1)[40 + 1024 + 1])
    /\ ico.Images[1].pix[<<1, DibHeight(EntryPayload(1)) - 1>>]
         = PaletteColour(EntryPayload(1), EntryPayload(1)[40 + 1024 + 2])
    /\ ico.Images[1].pix[<<0, DibHeight(EntryPayload(1)) - 1>>]
         # ico.Images[1].pix[<<1, DibHeight(EntryPayload(1)) - 1>>]

\* C26: at 4 bits the palette is 16 entries at headerSize, the pixel data
\* starts at headerSize + 64, and the byte at row offset + x div 2 holds the
\* index of pixel x in its high nibble for even x and in its low nibble for
\* odd x; every pixel has its palette colour with alpha 255 before the mask.
C26_Decode4 ==
    \A k \in 1..Len(route) :
        RoutedDepth(k, 4) =>
            LET p == EntryPayload(k)
                byte(x, y) ==
                    p[DibHeaderSize(p) + 64
                        + (DibHeight(p) - 1 - y) * RowBytes(4, DibWidth(p)) + (x \div 2) + 1]
                index(x, y) ==
                    IF x % 2 = 0 THEN byte(x, y) \div 16 ELSE byte(x, y) % 16
            IN  /\ Len(p) < DibHeaderSize(p) + 64 => PaletteTruncated(k)
                /\ (Len(images) >= k /\ DecodedBitmap(k)) =>
                      PalettePixels(k, [c \in (0..(DibWidth(p) - 1)) \X (0..(DibHeight(p) - 1))
                                           |-> index(c[1], c[2])])

\* Witness of C26: a decoded 4-bit bitmap of odd width whose first byte holds
\* two different nibbles: pixels 0 and 1 have the colours of the high and of
\* the low one.
C26_Witness ==
    /\ ico # NULL /\ Len(route) = 1 /\ RoutedDepth(1, 4) /\ DecodedBitmap(1)
    /\ DibWidth(EntryPayload(1)) = 3 /\ DibHeaderSize(EntryPayload(1)) = 40
    /\ LET b == EntryPayload(1)[40 + 64 + 1]
           y == DibHeight(EntryPayload(1)) - 1
       IN  /\ b \div 16 # b % 16
           /\ ico.Images[1].pix[<<0, y>>] = PaletteColour(EntryPayload(1), b \div 16)
           /\ ico.Images[1].pix[<<1, y>>] = PaletteColour(EntryPayload(1), b % 16)
           /\ ico.Images[1].pix[<<0, y>>] # ico.Images[1].pix[<<1, y>>]

\* C27: at 1 bit the palette is 2 entries at headerSize, the pixel data starts
\* at headerSize + 8, and pixel x takes its index from bit 7-(x mod 8) of the
\* byte at row offset + x div 8; every pixel has its palette colour with
\* alpha 255 before the mask.
C27_Decode1 ==
    \A k \in 1..Len(route) :
        RoutedDepth(k, 1) =>
            LET p == EntryPayload(k)
                byte(x, y) ==
                    p[DibHeaderSize(p) + 8
                        + (DibHeight(p) - 1 - y) * RowBytes(1, DibWidth(p)) + (x \div 8) + 1]
                index(x, y) == (byte(x, y) \div (2 ^ (7 - (x % 8)))) % 2
            IN  /\ Len(p) < DibHeaderSize(p) + 8 => PaletteTruncated(k)
                /\ (Len(images) >= k /\ DecodedBitmap(k)) =>
                      PalettePixels(k, [c \in (0..(DibWidth(p) - 1)) \X (0..(DibHeight(p) - 1))
                                           |-> index(c[1], c[2])])

\* Witness of C27: a decoded 1-bit bitmap wider than 8 whose first byte has
\* its top bit unlike its lowest: pixel 0 has the colour of the top bit, and
\* pixel 8 that of the top bit of the second byte.
C27_Witness ==
    /\ ico # NULL /\ Len(route) = 1 /\ RoutedDepth(1, 1) /\ DecodedBitmap(1)
    /\ DibWidth(EntryPayload(1)) > 8 /\ DibHeaderSize(EntryPayload(1)) = 40
    /\ LET b0 == EntryPayload(1)[40 + 8 + 1]
           b1 == EntryPayload(1)[40 + 8 + 2]
           y  == DibHeight(EntryPayload(1)) - 1
       IN  /\ b0 \div 128 # b0 % 2
           /\ ico.Images[1].pix[<<0, y>>] = PaletteColour(EntryPayload(1), b0 \div 128)
           /\ ico.Images[1].pix[<<8, y>>] = PaletteColour(EntryPayload(1), b1 \div 128)
           /\ PaletteColour(EntryPayload(1), 0) # PaletteColour(EntryPayload(1), 1)

\* Entry e lies outside the input: offset >= len or offset + size > len.
OutOfBounds(e) ==
    \/ e.Offset.hi > 0 \/ e.Size.hi > 0
    \/ e.Offset.lo >= Len(data)
    \/ e.Offset.lo + e.Size.lo > Len(data)

\* Entry e fails the two checks of Decode, whose sum is one of 32 bits.
FailsBoundsCheck(e) ==
    LET lo == e.Offset.lo + e.Size.lo
        hi == (e.Offset.hi + e.Size.hi + (lo \div 65536)) % 65536
    IN  \/ e.Offset.hi > 0 \/ e.Offset.lo >= Len(data)
        \/ hi > 0 \/ (lo % 65536) > Len(data)

BoundsMessages == {"invalid offset for image", "image extends beyond file boundary"}

\* The whole directory has been read.
DirectoryRead == header # NULL /\ Len(entries) = header.Count

\* C28 as stated: the bounds of every entry are validated before any payload
\* is sliced or decoded: with some entry out of bounds no payload is ever
\* sliced, and Decode fails with the bounds error of an entry out of bounds.
C28_ValidateAllFirst ==
    (DirectoryRead /\ \E i \in 1..Len(entries) : OutOfBounds(entries[i])) =>
        /\ sliced = <<>> /\ route = <<>> /\ images = <<>>
        /\ Finished =>
              /\ pc = "returned" /\ ico = NULL /\ err # NULL
              /\ err.msg \in BoundsMessages
              /\ OutOfBounds(entries[err.index + 1])

\* C28 amended: the bounds of an entry are checked right before that entry is
\* sliced, after the entries below it have been sliced and decoded; Decode
\* ends at the first entry that fails, so the bounds error names entry i only
\* when entries 0..i-1 have all decoded, and a lower entry that fails to
\* decode ends Decode with its own failure.
C28_ValidateEachInOrder ==
    /\ \A n \in 1..Len(sliced) :
          /\ sliced[n] = n - 1
          /\ ~FailsBoundsCheck(entries[n])
          /\ Len(images) >= n - 1
    /\ (Finished /\ DirectoryRead /\ \E i \in 1..Len(entries) : FailsBoundsCheck(entries[i])) =>
          LET first == CHOOSE i \in 1..Len(entries) :
                          /\ FailsBoundsCheck(entries[i])
                          /\ \A j \in 1..(i - 1) : ~FailsBoundsCheck(entries[j])
          IN  /\ ico = NULL
              /\ \/ /\ pc = "returned" /\ err # NULL
                    /\ err.msg \in BoundsMessages /\ err.index = first - 1
                    /\ Len(images) = first - 1 /\ Len(sliced) = first - 1
                    /\ \A j \in 1..(first - 1) : route[j].st = "ok"
                 \/ /\ pc = "returned" /\ err # NULL
                    /\ err.msg \notin BoundsMessages /\ err.index < first - 1
                    /\ Len(sliced) = err.index + 1
                    /\ route[err.index + 1].st = "error"
                 \/ /\ pc = "panicked" /\ panic.index < first - 1
    /\ (pc = "returned" /\ err # NULL /\ err.msg \in BoundsMessages) =>
          /\ FailsBoundsCheck(entries[err.index + 1])
          /\ Len(sliced) = err.index

\* Witness of C28: three entries, the first decoded, the second out of
\* bounds: its error is returned after the first payload was sliced.
C28_Witness ==
    /\ pc = "returned" /\ Len(entries) = 3 /\ err # NULL
    /\ err = [msg |-> "image extends beyond file boundary", index |-> 1]
    /\ sliced = <<0>> /\ Len(images) = 1
    /\ route = <<[via |-> "decodeBMP32", st |-> "ok"]>>

\* Other values of the six descriptive fields of a directory entry:
\* Width, Height, ColorCount, Reserved, ColorPlanes, BitsPerPixel.
AltFields ==
    { <<0, 0, 0, 0, 0, 0>>, <<255, 255, 255, 255, 65535, 1>>, <<1, 2, 16, 0, 1, 4>>,
      <<16, 16, 0, 0, 1, 8>>, <<32, 32, 0, 0, 1, 24>>, <<3, 2, 0, 0, 1, 32>> }

\* Entry e with its descriptive fields replaced, Size and Offset kept.
AltEntry(e, t) ==
    [e EXCEPT !.Width = t[1], !.Height = t[2], !.ColorCount = t[3],
              !.Reserved = t[4], !.ColorPlanes = t[5], !.BitsPerPixel = t[6]]

Abs(n) == IF n < 0 THEN -n ELSE n

\* C29: the outcome of decoding an entry depends on its payload bytes only.
\* Decoding the payload of the entry decoded last under any other Width,
\* Height, ColorCount, Reserved, ColorPlanes and BitsPerPixel gives the same
\* decoder, the same verdict and the same image; the depth decoder and the
\* size of a decoded bitmap are those of the DIB header, whatever the entry
\* states.
C29_EntryFieldsIgnored ==
    Len(route) > 0 =>
        LET k == Len(route)
            p == EntryPayload(k)
            e == entries[k]
            b == DibBpp(p)
        IN  /\ \A t \in AltFields : \A pngOK \in BOOLEAN :
                  decodeImage(p, AltEntry(e, t), pngOK) = decodeImage(p, e, pngOK)
            /\ \A t \in AltFields : \E pngOK \in BOOLEAN :
                  LET r == decodeImage(p, AltEntry(e, t), pngOK)
                  IN  /\ route[k] = [via |-> r.via, st |-> r.st]
                      /\ r.st = "ok" => Len(images) = k /\ images[k] = r.img
                      /\ r.st = "error" => err = [msg |-> r.err, index |-> k - 1]
                      /\ r.st = "panic" => pc = "panicked"
            /\ (IsBmp(p) /\ route[k].st = "ok") =>
                  /\ b \in Depths
                  /\ route[k].via = "decodeBMP" \o ToString(b)
                  /\ images[k].maxX - images[k].minX = Abs(DibWidth(p))
                  /\ images[k].maxY - images[k].minY = Abs(GoDiv(DibStoredHeight(p), 2))

\* Witness of C29: an entry stating 16x16 at 32 bits over a 24-bit bitmap of
\* another size is decoded by the 24-bit decoder at the DIB header's size.
C29_Witness ==
    /\ Len(route) > 0 /\ Len(images) = Len(route)
    /\ LET k == Len(route)
       IN  /\ entries[k].Width = 16 /\ entries[k].Height = 16
           /\ entries[k].BitsPerPixel = 32
           /\ IsBmp(EntryPayload(k)) /\ DibBpp(EntryPayload(k)) = 24
           /\ route[k] = [via |-> "decodeBMP24", st |-> "ok"]
           /\ images[k].kind = "rgba"
           /\ images[k].maxX = DibWidth(EntryPayload(k)) /\ images[k].maxX \in 1..MaxW
           /\ images[k].maxY = 1

\* The pixel the XOR pass stored at (x, y) of bitmap p, and its mask bit.
XorStored(p, x, y) ==
    Stored(ColourAt(p, XorBase(p)
                       + (DibHeight(p) - 1 - y) * RowBytes(DibBpp(p), DibWidth(p)), x))

MaskBitOf(p, x, y) ==
    MaskBitAt(p, MaskEnd(p) - MaskBytes(DibWidth(p), DibHeight(p))
                   + (DibHeight(p) - 1 - y) * RowBytes(1, DibWidth(p)), x)

\* C30 as stated: the mask changes alpha only: a pixel of mask bit 1 keeps
\* the R, G, B the XOR pass stored and gets alpha 0, a pixel of mask bit 0
\* keeps all four channels.
C30_MaskChangesAlphaOnly ==
    \A k \in 1..Len(images) :
        MaskApplied(k) =>
            LET p == EntryPayload(k)
            IN  \A x \in 0..(DibWidth(p) - 1), y \in 0..(DibHeight(p) - 1) :
                    LET xor == XorStored(p, x, y)
                        pix == images[k].pix[<<x, y>>]
                    IN  IF MaskBitOf(p, x, y) = 1
                        THEN pix = [xor EXCEPT !.A = 0]
                        ELSE pix = xor

\* C30 amended: a pixel of mask bit 1 is stored as (0, 0, 0, 0): its alpha
\* becomes 0 and its colour channels are cleared with it; a pixel of mask
\* bit 0 keeps all four channels the XOR pass stored.
C30_MaskClearsPixel ==
    \A k \in 1..Len(images) :
        MaskApplied(k) =>
            LET p == EntryPayload(k)
            IN  \A x \in 0..(DibWidth(p) - 1), y \in 0..(DibHeight(p) - 1) :
                    LET xor == XorStored(p, x, y)
                        pix == images[k].pix[<<x, y>>]
                    IN  IF MaskBitOf(p, x, y) = 1
                        THEN pix = [R |-> 0, G |-> 0, B |-> 0, A |-> 0]
                        ELSE pix = xor

\* Witness of C30: a returned bitmap with a masked pixel whose XOR colour was
\* not black, now (0, 0, 0, 0), next to an unmasked pixel kept as stored.
C30_Witness ==
    /\ ico # NULL /\ Len(images) = 1 /\ MaskApplied(1)
    /\ LET p == EntryPayload(1)
       IN  /\ \E x \in 0..(DibWidth(p) - 1), y \in 0..(DibHeight(p) - 1) :
                 /\ MaskBitOf(p, x, y) = 1
                 /\ XorStored(p, x, y).R > 0 /\ XorStored(p, x, y).A > 0
                 /\ ico.Images[1].pix[<<x, y>>] = [R |-> 0, G |-> 0, B |-> 0, A |-> 0]
           /\ \E x \in 0..(DibWidth(p) - 1), y \in 0..(DibHeight(p) - 1) :
                 /\ MaskBitOf(p, x, y) = 0
                 /\ XorStored(p, x, y).A > 0
                 /\ ico.Images[1].pix[<<x, y>>] = XorStored(p, x, y)

====
